---- MODULE Spec2Model ----
(***************************************************************************)
(* Model of the BiasZero anonymizer (src/anonymizer_module.py): one        *)
(* Anonymizer instance, its Mapping Table and Category Counters, the       *)
(* field maskers, the six section anonymizers, anonymize_record and the    *)
(* anonymize_dataset loop with its end-of-batch mapping-file write.        *)
(*                                                                         *)
(* Python values are tagged records: [t |-> "none"], [t |-> "int", v],     *)
(* [t |-> "str", v] (v a sequence of one-character strings),               *)
(* [t |-> "lit", v] (a str that ast.literal_eval parses to the value v),   *)
(* [t |-> "list", v] (v a sequence), [t |-> "dict", v] (v a function from  *)
(* key to value) and [t |-> "hstr", v] (a str built around the first n hex *)
(* characters of a SHA-256 digest).                                        *)
(***************************************************************************)
EXTENDS Integers, Sequences, FiniteSets, TLC

VARIABLES
    reversible,                 \* self.reversible
    preserve_numeric_features,  \* self.preserve_numeric_features
    salt,                       \* self.salt
    id_prefix,                  \* self.id_prefix
    mapping,                    \* self._mapping
    counters,                   \* self._counters
    file,                       \* content of the file at self.mapping_path
    pc,                         \* position of the caller / of anonymize_dataset
    data,                       \* anonymize_dataset: argument data
    detected,                   \* anonymize_dataset: argument detected_fields
    out,                        \* anonymize_dataset: local list out
    writes,                     \* mapping-file writes of the current anonymize_dataset call
    ret,                        \* outcome of the last finished public call
    entry,                      \* anonymize_dataset: mapping and counters when it was entered
    ops,                        \* public calls made on the instance so far
    calls,                      \* tokenizer calls made directly on the instance
    threads,                    \* each thread's position in _get_or_create_token and its locals
    mutex,                      \* the lock callers may put around the instance
    heap,                       \* the dicts and lists of the callers and of the calls, by address
    passed,                     \* the objects passed to the public calls, with their values then
    returned                    \* the objects the public calls returned

vars == <<reversible, preserve_numeric_features, salt, id_prefix, mapping, counters,
          file, pc, data, detected, out, writes, entry, ret, ops, calls, threads, mutex,
          heap, passed, returned>>

config == <<reversible, preserve_numeric_features, salt, id_prefix>>

objects == <<heap, passed, returned>>

(***************************************************************************)
(* Bounds of the model.                                                    *)
(***************************************************************************)
MaxCalls == 3     \* direct tokenizer calls that are logged
MaxBatch == 2     \* records in one anonymize_dataset call
MaxOps == 2       \* public calls in one instance's lifetime

(***************************************************************************)
(* Python values.                                                          *)
(***************************************************************************)
PyNone == [t |-> "none"]
PyInt(n) == [t |-> "int", v |-> n]
PyStr(s) == [t |-> "str", v |-> s]
PyLit(x) == [t |-> "lit", v |-> x]
PyList(xs) == [t |-> "list", v |-> xs]
PyDict(f) == [t |-> "dict", v |-> f]
EmptyDict == [k \in {} |-> PyNone]

\* A str  pre + digest[:n] + post,  digest = SHA-256 of the text sha.
HStr(pre, sha, n, post) ==
    [t |-> "hstr", v |-> [pre |-> pre, sha |-> sha, n |-> n, post |-> post]]

(***************************************************************************)
(* Strings: sequences of one-character strings.                            *)
(***************************************************************************)
DigitChars == <<"0", "1", "2", "3", "4", "5", "6", "7", "8", "9">>

IsDigit(c) == \E i \in 1..10 : DigitChars[i] = c

IsSpace(c) == c = " "

RECURSIVE NatToStr(_)
NatToStr(n) ==
    IF n < 10 THEN <<DigitChars[n + 1]>>
    ELSE NatToStr(n \div 10) \o <<DigitChars[(n % 10) + 1]>>

IntToStr(n) == IF n < 0 THEN <<"-">> \o NatToStr(0 - n) ELSE NatToStr(n)

RECURSIVE LStrip(_)
LStrip(s) == IF s # <<>> /\ IsSpace(Head(s)) THEN LStrip(Tail(s)) ELSE s

RECURSIVE RStrip(_)
RStrip(s) ==
    IF s # <<>> /\ IsSpace(s[Len(s)]) THEN RStrip(SubSeq(s, 1, Len(s) - 1)) ELSE s

\* str.strip()
Strip(s) == RStrip(LStrip(s))

\* str(x) for the scalars that reach the maskers
StrOf(x) ==
    CASE x.t = "str" -> x.v
      [] x.t = "int" -> IntToStr(x.v)
      [] x.t = "none" -> <<"N", "o", "n", "e">>

\* Python truthiness  (if x:)
Truthy(x) ==
    CASE x.t = "none" -> FALSE
      [] x.t = "int" -> x.v # 0
      [] x.t \in {"str", "list"} -> x.v # <<>>
      [] x.t = "dict" -> DOMAIN x.v # {}
      [] OTHER -> TRUE

(***************************************************************************)
(* _hash_text: the hex digest of SHA-256(salt + text).  The digest is      *)
(* represented by its preimage salt + text (collision-free hashing); the   *)
(* callers keep its first n characters.                                    *)
(***************************************************************************)
_hash_text(text, slt) == slt \o text

(***************************************************************************)
(* Program constants.                                                      *)
(***************************************************************************)
Categories ==
    {"name", "email", "phone", "university", "company", "technology",
     "project_title", "location"}

CounterPrefixes == {"ORG", "UNIV", "TECH", "PROJ"}

\* the characters of the token prefixes the code passes to the tokenizer
PrefixChars ==
    [CAND |-> <<"C", "A", "N", "D">>,
     EMAIL |-> <<"E", "M", "A", "I", "L">>,
     PHONE |-> <<"P", "H", "O", "N", "E">>,
     UNIV |-> <<"U", "N", "I", "V">>,
     ORG |-> <<"O", "R", "G">>,
     TECH |-> <<"T", "E", "C", "H">>,
     PROJ |-> <<"P", "R", "O", "J">>,
     LOC |-> <<"L", "O", "C">>]

StrUNKNOWN == <<"U", "N", "K", "N", "O", "W", "N">>

DEFAULT_ID_PREFIX == <<"C", "A", "N", "D", "_">>

\* the instance as one value
Self ==
    [reversible |-> reversible,
     preserve_numeric_features |-> preserve_numeric_features,
     salt |-> salt, id_prefix |-> id_prefix,
     mapping |-> mapping, counters |-> counters]

\* Anonymizer.__init__
NewAnonymizer(rev, pres, slt, idp) ==
    [reversible |-> rev, preserve_numeric_features |-> pres, salt |-> slt,
     id_prefix |-> idp,
     mapping |-> [c \in Categories |-> EmptyDict],
     counters |-> [p \in CounterPrefixes |-> 0]]

\* outcome of a method: the returned value (or a raised exception) and the
\* instance after the call
Return(self, value) == [exc |-> FALSE, val |-> value, self |-> self]
Raise(self) == [exc |-> TRUE, val |-> PyNone, self |-> self]

\* a local variable:  x = value  followed by the statements K(x)
With(value, K(_)) == K(value)

\* the statements K after a call with outcome r: they run when the call
\* returned, an exception propagates
Then(r, K(_)) == IF r.exc THEN r ELSE K(r)

\* d[k] = <call>  for a call with outcome r
SetItem(d, k, r) == Then(r, LAMBDA x : Return(x.self, PyDict((k :> x.val) @@ d)))

(***************************************************************************)
(* Entity Tokenizer.                                                       *)
(***************************************************************************)
\* mutant: the original is not trimmed before it is looked up and hashed
_get_or_create_token_NoStrip(self, category, original, prefix) ==
    LET original_norm == StrOf(original) IN
    IF original_norm = <<>>
    THEN Return(self, PyStr(PrefixChars[prefix] \o <<"_">> \o StrUNKNOWN))
    ELSE IF self.reversible
    THEN IF category \in DOMAIN self.mapping
            /\ original_norm \in DOMAIN self.mapping[category]
         THEN Return(self, self.mapping[category][original_norm])
         ELSE LET token == HStr(PrefixChars[prefix] \o <<"_">>,
                                _hash_text(original_norm, self.salt), 12, <<>>)
              IN  IF category \notin DOMAIN self.mapping
                  THEN Raise(self)   \* KeyError
                  ELSE Return([self EXCEPT !.mapping[category] =
                                   (original_norm :> token) @@ @], token)
    ELSE LET n == (IF prefix \in DOMAIN self.counters
                   THEN self.counters[prefix] ELSE 0) + 1
         IN  Return([self EXCEPT !.counters = (prefix :> n) @@ @],
                    PyStr(PrefixChars[prefix] \o <<"_">> \o IntToStr(n)))

\* mutant: a new token replaces the category's sub-mapping
_get_or_create_token_Replace(self, category, original, prefix) ==
    LET original_norm == Strip(StrOf(original)) IN
    IF original_norm = <<>>
    THEN Return(self, PyStr(PrefixChars[prefix] \o <<"_">> \o StrUNKNOWN))
    ELSE IF self.reversible
    THEN IF category \in DOMAIN self.mapping
            /\ original_norm \in DOMAIN self.mapping[category]
         THEN Return(self, self.mapping[category][original_norm])
         ELSE LET token == HStr(PrefixChars[prefix] \o <<"_">>,
                                _hash_text(original_norm, self.salt), 12, <<>>)
              IN  IF category \notin DOMAIN self.mapping
                  THEN Raise(self)   \* KeyError
                  ELSE Return([self EXCEPT !.mapping[category] =
                                   (original_norm :> token)], token)
    ELSE LET n == (IF prefix \in DOMAIN self.counters
                   THEN self.counters[prefix] ELSE 0) + 1
         IN  Return([self EXCEPT !.counters = (prefix :> n) @@ @],
                    PyStr(PrefixChars[prefix] \o <<"_">> \o IntToStr(n)))

\* mutant: the counter is incremented before the mode is looked at
_get_or_create_token_CountFirst(self, category, original, prefix) ==
    LET original_norm == Strip(StrOf(original))
        n == (IF prefix \in DOMAIN self.counters THEN self.counters[prefix] ELSE 0) + 1
        counted == [self EXCEPT !.counters = (prefix :> n) @@ @]
    IN
    IF original_norm = <<>>
    THEN Return(self, PyStr(PrefixChars[prefix] \o <<"_">> \o StrUNKNOWN))
    ELSE IF self.reversible
    THEN IF category \in DOMAIN self.mapping
            /\ original_norm \in DOMAIN self.mapping[category]
         THEN Return(counted, self.mapping[category][original_norm])
         ELSE LET token == HStr(PrefixChars[prefix] \o <<"_">>,
                                _hash_text(original_norm, self.salt), 12, <<>>)
              IN  IF category \notin DOMAIN self.mapping
                  THEN Raise(self)   \* KeyError
                  ELSE Return([counted EXCEPT !.mapping[category] =
                                   (original_norm :> token) @@ @], token)
    ELSE Return(counted, PyStr(PrefixChars[prefix] \o <<"_">> \o IntToStr(n)))

\* mutant: a new reversible token is numbered by its place in the table
_get_or_create_token_Sequential(self, category, original, prefix) ==
    LET original_norm == Strip(StrOf(original)) IN
    IF original_norm = <<>>
    THEN Return(self, PyStr(PrefixChars[prefix] \o <<"_">> \o StrUNKNOWN))
    ELSE IF self.reversible
    THEN IF category \in DOMAIN self.mapping
            /\ original_norm \in DOMAIN self.mapping[category]
         THEN Return(self, self.mapping[category][original_norm])
         ELSE LET token == PyStr(PrefixChars[prefix] \o <<"_">>
                                 \o IntToStr(Cardinality(DOMAIN self.mapping[category]) + 1))
              IN  IF category \notin DOMAIN self.mapping
                  THEN Raise(self)   \* KeyError
                  ELSE Return([self EXCEPT !.mapping[category] =
                                   (original_norm :> token) @@ @], token)
    ELSE LET n == (IF prefix \in DOMAIN self.counters
                   THEN self.counters[prefix] ELSE 0) + 1
         IN  Return([self EXCEPT !.counters = (prefix :> n) @@ @],
                    PyStr(PrefixChars[prefix] \o <<"_">> \o IntToStr(n)))

\* mutant: the counter is read but the incremented value is not stored
_get_or_create_token_NoIncrement(self, category, original, prefix) ==
    LET original_norm == Strip(StrOf(original)) IN
    IF original_norm = <<>>
    THEN Return(self, PyStr(PrefixChars[prefix] \o <<"_">> \o StrUNKNOWN))
    ELSE IF self.reversible
    THEN IF category \in DOMAIN self.mapping
            /\ original_norm \in DOMAIN self.mapping[category]
         THEN Return(self, self.mapping[category][original_norm])
         ELSE LET token == HStr(PrefixChars[prefix] \o <<"_">>,
                                _hash_text(original_norm, self.salt), 12, <<>>)
              IN  IF category \notin DOMAIN self.mapping
                  THEN Raise(self)   \* KeyError
                  ELSE Return([self EXCEPT !.mapping[category] =
                                   (original_norm :> token) @@ @], token)
    ELSE LET n == (IF prefix \in DOMAIN self.counters
                   THEN self.counters[prefix] ELSE 0) + 1
         IN  Return(self,
                    PyStr(PrefixChars[prefix] \o <<"_">> \o IntToStr(n)))

_get_or_create_token(self, category, original, prefix) ==
    LET original_norm == Strip(StrOf(original)) IN
    IF original_norm = <<>>
    THEN Return(self, PyStr(PrefixChars[prefix] \o <<"_">> \o StrUNKNOWN))
    ELSE IF self.reversible
    THEN IF category \in DOMAIN self.mapping
            /\ original_norm \in DOMAIN self.mapping[category]
         THEN Return(self, self.mapping[category][original_norm])
         ELSE LET token == HStr(PrefixChars[prefix] \o <<"_">>,
                                _hash_text(original_norm, self.salt), 12, <<>>)
              IN  IF category \notin DOMAIN self.mapping
                  THEN Raise(self)   \* KeyError
                  ELSE Return([self EXCEPT !.mapping[category] =
                                   (original_norm :> token) @@ @], token)
    ELSE LET n == (IF prefix \in DOMAIN self.counters
                   THEN self.counters[prefix] ELSE 0) + 1
         IN  Return([self EXCEPT !.counters = (prefix :> n) @@ @],
                    PyStr(PrefixChars[prefix] \o <<"_">> \o IntToStr(n)))

(***************************************************************************)
(* String helpers of the maskers.                                          *)
(***************************************************************************)
LowerChars == <<"a", "b", "c", "d", "e", "f", "g", "h", "i", "j", "k", "l", "m", "n", "o", "p", "q", "r", "s", "t", "u", "v", "w", "x", "y", "z">>
UpperChars == <<"A", "B", "C", "D", "E", "F", "G", "H", "I", "J", "K", "L", "M", "N", "O", "P", "Q", "R", "S", "T", "U", "V", "W", "X", "Y", "Z">>

StrAnonEmail == <<"a", "n", "o", "n", "@", "e", "x", "a", "m", "p", "l", "e", ".", "c", "o", "m">>
StrAnonPlus == <<"a", "n", "o", "n", "+">>
StrDotExample == <<".", "e", "x", "a", "m", "p", "l", "e">>
StrAtExampleCom == <<"@", "e", "x", "a", "m", "p", "l", "e", ".", "c", "o", "m">>
StrRemote == <<"r", "e", "m", "o", "t", "e">>
StrREMOTE_ == <<"R", "E", "M", "O", "T", "E", "_">>
StrONSITE_ == <<"O", "N", "S", "I", "T", "E", "_">>
StrUndisclosed == <<"u", "n", "d", "i", "s", "c", "l", "o", "s", "e", "d">>
Str18_25 == <<"1", "8", "-", "2", "5">>
Str26_35 == <<"2", "6", "-", "3", "5">>
Str36_45 == <<"3", "6", "-", "4", "5">>
Str46Plus == <<"4", "6", "+">>

Range(s) == {s[i] : i \in DOMAIN s}

Max(S) == CHOOSE m \in S : \A n \in S : n <= m

\* sub in s
Contains(s, sub) ==
    \E i \in 1..(Len(s) - Len(sub) + 1) : SubSeq(s, i, i + Len(sub) - 1) = sub

LowerChar(c) ==
    IF \E i \in 1..26 : UpperChars[i] = c
    THEN LowerChars[CHOOSE i \in 1..26 : UpperChars[i] = c]
    ELSE c

\* str.lower()
Lower(s) == [i \in 1..Len(s) |-> LowerChar(s[i])]

\* index of the first occurrence of the character c in s
FirstIndex(s, c) == CHOOSE i \in 1..Len(s) : s[i] = c /\ \A j \in 1..(i - 1) : s[j] # c

\* s.split(c)[-1]
LastSegment(s, c) ==
    LET idx == {i \in 1..Len(s) : s[i] = c}
    IN  IF idx = {} THEN s ELSE SubSeq(s, Max(idx) + 1, Len(s))

\* 'X' * n
Xs(n) == [i \in 1..n |-> "X"]

\* f"{x}{s}" and f"{s}{x}" for a str value x and literal characters s
StrCat(x, s) == IF x.t = "hstr" THEN [x EXCEPT !.v.post = @ \o s] ELSE PyStr(x.v \o s)
StrPrepend(s, x) == IF x.t = "hstr" THEN [x EXCEPT !.v.pre = s \o @] ELSE PyStr(s \o x.v)

RECURSIVE StrToNat(_)
StrToNat(s) ==
    IF s = <<>> THEN 0
    ELSE 10 * StrToNat(SubSeq(s, 1, Len(s) - 1))
         + ((CHOOSE i \in 1..10 : DigitChars[i] = s[Len(s)]) - 1)

\* int(x): [ok |-> FALSE] stands for the ValueError / TypeError
PyIntOf(x) ==
    CASE x.t = "int" -> [ok |-> TRUE, v |-> x.v]
      [] x.t = "str" ->
            LET b == Strip(x.v)
                signed == b # <<>> /\ b[1] \in {"-", "+"}
                digs == IF signed THEN Tail(b) ELSE b
                \* digits, single underscores allowed between two digits
                wellFormed == /\ digs # <<>>
                              /\ IsDigit(digs[1]) /\ IsDigit(digs[Len(digs)])
                              /\ \A i \in 1..Len(digs) : IsDigit(digs[i]) \/ digs[i] = "_"
                              /\ \A i \in 1..(Len(digs) - 1) : digs[i] # "_" \/ digs[i + 1] # "_"
                n == StrToNat(SelectSeq(digs, IsDigit))
            IN  IF wellFormed
                THEN [ok |-> TRUE, v |-> IF signed /\ b[1] = "-" THEN 0 - n ELSE n]
                ELSE [ok |-> FALSE, v |-> 0]
      [] OTHER -> [ok |-> FALSE, v |-> 0]

(***************************************************************************)
(* Record Normalizer.                                                      *)
(***************************************************************************)
\* ast.literal_eval on the characters of a str.  The literals covered are
\* integers (optional sign, no leading zero), None, string literals in
\* single or double quotes without escapes, lists and dicts of such literals
\* (keys: string or integer literals, an integer key is kept under its
\* decimal text), with spaces between the tokens.  A parser outcome is
\* [ok, v, next]: the value and the index after it, ok = FALSE standing for
\* the SyntaxError / ValueError / TypeError.
ParseFail == [ok |-> FALSE, v |-> PyNone, next |-> 0]

ParseOk(v, next) == [ok |-> TRUE, v |-> v, next |-> next]

RECURSIVE SkipSpaces(_, _)
SkipSpaces(s, i) == IF i <= Len(s) /\ IsSpace(s[i]) THEN SkipSpaces(s, i + 1) ELSE i

\* the index after the run of digits that starts at index i
DigitsEnd(s, i) ==
    CHOOSE e \in i..(Len(s) + 1) :
        /\ \A k \in i..(e - 1) : IsDigit(s[k])
        /\ e = Len(s) + 1 \/ ~IsDigit(s[e])

ParseInt(s, j) ==
    LET signed == s[j] \in {"+", "-"}
        d == IF signed THEN SkipSpaces(s, j + 1) ELSE j
    IN  With(DigitsEnd(s, d), LAMBDA e :
        With(SubSeq(s, d, e - 1), LAMBDA digs :
            IF digs = <<>> THEN ParseFail
            ELSE IF Len(digs) > 1 /\ digs[1] = "0" /\ \E k \in DOMAIN digs : digs[k] # "0"
            THEN ParseFail
            ELSE ParseOk(PyInt(IF s[j] = "-" THEN 0 - StrToNat(digs) ELSE StrToNat(digs)), e)))

ParseStr(s, j) ==
    IF \E k \in (j + 1)..Len(s) : s[k] = s[j]
    THEN With(CHOOSE k \in (j + 1)..Len(s) :
                  s[k] = s[j] /\ \A m \in (j + 1)..(k - 1) : s[m] # s[j],
              LAMBDA k : ParseOk(PyStr(SubSeq(s, j + 1, k - 1)), k + 1))
    ELSE ParseFail

ParseNone(s, j) ==
    IF /\ j + 3 <= Len(s)
       /\ SubSeq(s, j, j + 3) = <<"N", "o", "n", "e">>
       /\ j + 4 <= Len(s) => ~(IsDigit(s[j + 4]) \/ s[j + 4] = "_"
                               \/ \E i \in 1..26 : s[j + 4] \in {LowerChars[i], UpperChars[i]})
    THEN ParseOk(PyNone, j + 4)
    ELSE ParseFail

\* the name a dict key is kept under
RECURSIVE CharsToName(_)
CharsToName(cs) == IF cs = <<>> THEN "" ELSE Head(cs) \o CharsToName(Tail(cs))

KeyName(k) == CharsToName(StrOf(k))

RECURSIVE ParseValue(_, _)
RECURSIVE ParseItems(_, _, _)
RECURSIVE ParsePairs(_, _, _)
ParseValue(s, i) ==
    With(SkipSpaces(s, i), LAMBDA j :
        IF j > Len(s) THEN ParseFail
        ELSE IF IsDigit(s[j]) \/ s[j] \in {"+", "-"} THEN ParseInt(s, j)
        ELSE IF s[j] \in {"'", "\""} THEN ParseStr(s, j)
        ELSE IF s[j] = "N" THEN ParseNone(s, j)
        ELSE IF s[j] = "[" THEN ParseItems(s, j + 1, <<>>)
        ELSE IF s[j] = "{" THEN ParsePairs(s, j + 1, EmptyDict)
        ELSE ParseFail)

\* the items of a list display after its '[' or after a ','
ParseItems(s, i, acc) ==
    With(SkipSpaces(s, i), LAMBDA j :
        IF j > Len(s) THEN ParseFail
        ELSE IF s[j] = "]" THEN ParseOk(PyList(acc), j + 1)
        ELSE With(ParseValue(s, j), LAMBDA p :
             IF ~p.ok THEN ParseFail
             ELSE With(SkipSpaces(s, p.next), LAMBDA k :
                  IF k > Len(s) THEN ParseFail
                  ELSE IF s[k] = "," THEN ParseItems(s, k + 1, Append(acc, p.v))
                  ELSE IF s[k] = "]" THEN ParseOk(PyList(Append(acc, p.v)), k + 1)
                  ELSE ParseFail)))

\* the key: value pairs of a dict display after its '{' or after a ','
ParsePairs(s, i, acc) ==
    With(SkipSpaces(s, i), LAMBDA j :
        IF j > Len(s) THEN ParseFail
        ELSE IF s[j] = "}" THEN ParseOk(PyDict(acc), j + 1)
        ELSE With(ParseValue(s, j), LAMBDA key :
             IF ~key.ok \/ key.v.t \notin {"str", "int"} THEN ParseFail
             ELSE With(SkipSpaces(s, key.next), LAMBDA c :
                  IF c > Len(s) \/ s[c] # ":" THEN ParseFail
                  ELSE With(ParseValue(s, c + 1), LAMBDA p :
                       IF ~p.ok THEN ParseFail
                       ELSE With(SkipSpaces(s, p.next), LAMBDA k :
                            IF k > Len(s) THEN ParseFail
                            ELSE IF s[k] = ","
                            THEN ParsePairs(s, k + 1, (KeyName(key.v) :> p.v) @@ acc)
                            ELSE IF s[k] = "}"
                            THEN ParseOk(PyDict((KeyName(key.v) :> p.v) @@ acc), k + 1)
                            ELSE ParseFail)))))

\* ast.literal_eval(s): the whole of s is one literal
literal_eval(s) ==
    With(ParseValue(s, 1), LAMBDA p :
        IF p.ok /\ SkipSpaces(s, p.next) > Len(s) THEN p ELSE ParseFail)

\* mutant: a parse failure yields None
safe_parse_NoneOnFailure(s) ==
    CASE s.t = "lit" -> s.v
      [] s.t = "str" -> literal_eval(s.v).v
      [] OTHER -> s

\* a str is parsed ([t |-> "lit"] is a str passed by the value it parses to)
\* and returned as it is when the parse fails; any other value is returned
\* as it is
safe_parse(s) ==
    CASE s.t = "lit" -> s.v
      [] s.t = "str" -> With(literal_eval(s.v), LAMBDA p : IF p.ok THEN p.v ELSE s)
      [] OTHER -> s

(***************************************************************************)
(* Field Maskers.                                                          *)
(***************************************************************************)
_mask_email(self, email) ==
    LET e == StrOf(email) IN
    IF ~Contains(e, <<"@">>)
    THEN Return(self, PyStr(StrAnonEmail))
    ELSE LET at == FirstIndex(e, "@")
             local == SubSeq(e, 1, at - 1)
             domain == SubSeq(e, at + 1, Len(e))
         IN  IF self.reversible
             THEN Then(_get_or_create_token(self, "email", PyStr(e), "EMAIL"),
                       LAMBDA r : Return(r.self, StrCat(r.val, StrAtExampleCom)))
             ELSE Return(self, HStr(StrAnonPlus, _hash_text(local, self.salt), 8,
                                    <<"@">> \o LastSegment(domain, ".") \o StrDotExample))

\* mutant: exactly four digits are treated as too few
_mask_phone_MoreThanFour(self, phone) ==
    LET p == StrOf(phone)
        digits == SelectSeq(p, IsDigit)
        masked == IF Len(digits) > 4
                  THEN Xs(Len(digits) - 4) \o SubSeq(digits, Len(digits) - 3, Len(digits))
                  ELSE Xs(Max({3, Len(digits)}))
    IN  IF self.reversible
        THEN _get_or_create_token(self, "phone", PyStr(p), "PHONE")
        ELSE Return(self, PyStr(masked))

_mask_phone(self, phone) ==
    LET p == StrOf(phone)
        digits == SelectSeq(p, IsDigit)
        masked == IF Len(digits) >= 4
                  THEN Xs(Len(digits) - 4) \o SubSeq(digits, Len(digits) - 3, Len(digits))
                  ELSE Xs(Max({3, Len(digits)}))
    IN  IF self.reversible
        THEN _get_or_create_token(self, "phone", PyStr(p), "PHONE")
        ELSE Return(self, PyStr(masked))

\* mutant: the name goes through the Entity Tokenizer in both modes
_anonymize_name_Tokenized(self, name) ==
    LET n == Strip(StrOf(name)) IN
    IF n = <<>> THEN Return(self, PyStr(<<>>))
    ELSE _get_or_create_token(self, "name", PyStr(n), "CAND")

_anonymize_name(self, name) ==
    LET n == Strip(StrOf(name)) IN
    IF n = <<>> THEN Return(self, PyStr(<<>>))
    ELSE IF self.reversible
    THEN _get_or_create_token(self, "name", PyStr(n), "CAND")
    ELSE Return(self, HStr(self.id_prefix, _hash_text(n, self.salt), 8, <<>>))

\* mutant: 'remote' is looked for in the location as written
_anonymize_location_CaseSensitive(self, loc) ==
    LET l == Strip(StrOf(loc)) IN
    IF l = <<>> THEN Return(self, PyStr(StrUNKNOWN))
    ELSE LET cat == IF Contains(l, StrRemote) THEN StrREMOTE_ ELSE StrONSITE_
         IN  IF self.reversible
             THEN Then(_get_or_create_token(self, "location", PyStr(l), "LOC"),
                       LAMBDA r : Return(r.self, StrPrepend(cat, r.val)))
             ELSE Return(self, HStr(cat, _hash_text(l, self.salt), 8, <<>>))

_anonymize_location(self, loc) ==
    LET l == Strip(StrOf(loc)) IN
    IF l = <<>> THEN Return(self, PyStr(StrUNKNOWN))
    ELSE LET cat == IF Contains(Lower(l), StrRemote) THEN StrREMOTE_ ELSE StrONSITE_
         IN  IF self.reversible
             THEN Then(_get_or_create_token(self, "location", PyStr(l), "LOC"),
                       LAMBDA r : Return(r.self, StrPrepend(cat, r.val)))
             ELSE Return(self, HStr(cat, _hash_text(l, self.salt), 8, <<>>))

\* mutant: the first bucket ends below 25
AgeBucket_Below25(x) ==
    LET a == PyIntOf(x) IN
    IF ~a.ok THEN PyStr(StrUNKNOWN)
    ELSE IF a.v < 25 THEN PyStr(Str18_25)
    ELSE IF a.v <= 35 THEN PyStr(Str26_35)
    ELSE IF a.v <= 45 THEN PyStr(Str36_45)
    ELSE PyStr(Str46Plus)

\* the age bucket of anonymize_personal_info
AgeBucket(x) ==
    LET a == PyIntOf(x) IN
    IF ~a.ok THEN PyStr(StrUNKNOWN)
    ELSE IF a.v <= 25 THEN PyStr(Str18_25)
    ELSE IF a.v <= 35 THEN PyStr(Str26_35)
    ELSE IF a.v <= 45 THEN PyStr(Str36_45)
    ELSE PyStr(Str46Plus)

(***************************************************************************)
(* Regular expressions of the section anonymizers.  MatchEnd(pat, s, i) is *)
(* the index of the last character of the match of pat that starts at      *)
(* index i of s, or 0 when pat does not match there; every pattern matches *)
(* greedily, as re does.                                                   *)
(***************************************************************************)
Min(S) == CHOOSE m \in S : \A n \in S : m <= n

IsAlpha(c) == \E i \in 1..26 : LowerChars[i] = c \/ UpperChars[i] = c

IsAlnum(c) == IsAlpha(c) \/ IsDigit(c)

\* \w
IsWord(c) == IsAlnum(c) \/ c = "_"

\* [A-Za-z0-9._%+-]
IsEmailLocal(c) == IsAlnum(c) \/ c \in {".", "_", "%", "+", "-"}

\* [A-Za-z0-9.-]
IsEmailDomain(c) == IsAlnum(c) \/ c \in {".", "-"}

\* [\d\s\-()]
IsPhoneBody(c) == IsDigit(c) \/ IsSpace(c) \/ c \in {"-", "(", ")"}

InClass(cls, c) ==
    CASE cls = "digit" -> IsDigit(c)
      [] cls = "alnum" -> IsAlnum(c)
      [] cls = "email_local" -> IsEmailLocal(c)
      [] cls = "email_domain" -> IsEmailDomain(c)
      [] cls = "phone_body" -> IsPhoneBody(c)

\* last index of the longest run of cls characters starting at i (i - 1: none)
RunEnd(cls, s, i) ==
    IF i > Len(s) \/ ~InClass(cls, s[i]) THEN i - 1
    ELSE With({k \in i..Len(s) : ~InClass(cls, s[k])},
              LAMBDA bad : IF bad = {} THEN Len(s) ELSE Min(bad) - 1)

\* [A-Za-z0-9._%+-]+@[A-Za-z0-9.-]+
MatchEmail(s, i) ==
    With(RunEnd("email_local", s, i), LAMBDA j :
    With(RunEnd("email_domain", s, j + 2), LAMBDA k :
    IF j >= i /\ j + 1 <= Len(s) /\ s[j + 1] = "@" /\ k >= j + 2 THEN k ELSE 0))

\* \d{n,}
MatchDigits(s, i, n) ==
    With(RunEnd("digit", s, i), LAMBDA j : IF j - i + 1 >= n THEN j ELSE 0)

\* #\d+
MatchHashId(s, i) ==
    With(RunEnd("digit", s, i + 1), LAMBDA j : IF s[i] = "#" /\ j >= i + 1 THEN j ELSE 0)

\* \+?\d[\d\s\-()]{6,}
MatchPhone(s, i) ==
    With(IF s[i] = "+" THEN i + 1 ELSE i, LAMBDA d :
    With(RunEnd("phone_body", s, d + 1), LAMBDA j :
    IF d <= Len(s) /\ IsDigit(s[d]) /\ j - d >= 6 THEN j ELSE 0))

\* \bI\b|\bme\b|\bmy\b  with re.IGNORECASE
MatchPronoun(s, i) ==
    LET startsWord == i = 1 \/ ~IsWord(s[i - 1])
        endsWord(j) == j = Len(s) \/ ~IsWord(s[j + 1])
        two == IF i + 1 <= Len(s) THEN Lower(SubSeq(s, i, i + 1)) ELSE <<>>
    IN  IF startsWord /\ LowerChar(s[i]) = "i" /\ endsWord(i) THEN i
        ELSE IF startsWord /\ two \in {<<"m", "e">>, <<"m", "y">>} /\ endsWord(i + 1) THEN i + 1
        ELSE 0

FirstNonZero(a, b) == IF a # 0 THEN a ELSE b

MatchEnd(pat, s, i) ==
    CASE pat = "email_or_digits5" -> FirstNonZero(MatchEmail(s, i), MatchDigits(s, i, 5))
      [] pat = "email" -> MatchEmail(s, i)
      [] pat = "phone" -> MatchPhone(s, i)
      [] pat = "hash_id" -> MatchHashId(s, i)
      [] pat = "hash_id_or_digits6" -> FirstNonZero(MatchHashId(s, i), MatchDigits(s, i, 6))
      [] pat = "pronoun" -> MatchPronoun(s, i)
      [] pat = "alnum_run" -> With(RunEnd("alnum", s, i), LAMBDA j : IF j >= i THEN j ELSE 0)

\* re.sub(pat, repl, s), scanning from index i
RECURSIVE ReSubFrom(_, _, _, _)
ReSubFrom(pat, repl, s, i) ==
    IF i > Len(s) THEN <<>>
    ELSE With({k \in i..Len(s) : MatchEnd(pat, s, k) # 0}, LAMBDA starts :
              IF starts = {} THEN SubSeq(s, i, Len(s))
              ELSE With(Min(starts), LAMBDA k :
                        SubSeq(s, i, k - 1) \o repl
                            \o ReSubFrom(pat, repl, s, MatchEnd(pat, s, k) + 1)))

ReSub(pat, repl, s) == ReSubFrom(pat, repl, s, 1)

\* re.findall(pat, s), scanning from index i
RECURSIVE ReFindAllFrom(_, _, _)
ReFindAllFrom(pat, s, i) ==
    IF i > Len(s) THEN <<>>
    ELSE With(MatchEnd(pat, s, i), LAMBDA j :
              IF j # 0 THEN <<SubSeq(s, i, j)>> \o ReFindAllFrom(pat, s, j + 1)
              ELSE ReFindAllFrom(pat, s, i + 1))

\* sep.join(parts)
RECURSIVE Join(_, _)
Join(sep, parts) ==
    IF parts = <<>> THEN <<>>
    ELSE IF Len(parts) = 1 THEN parts[1]
    ELSE parts[1] \o sep \o Join(sep, Tail(parts))

\* s.split(c)
RECURSIVE Split(_, _)
Split(s, c) ==
    IF \A i \in 1..Len(s) : s[i] # c THEN <<s>>
    ELSE LET at == FirstIndex(s, c)
         IN  <<SubSeq(s, 1, at - 1)>> \o Split(SubSeq(s, at + 1, Len(s)), c)

StrEmailTag == <<"[", "e", "m", "a", "i", "l", "]">>
StrPhoneTag == <<"[", "p", "h", "o", "n", "e", "]">>
StrPersonTag == <<"[", "p", "e", "r", "s", "o", "n", "]">>
StrEllipsis == <<".", ".", ".">>

DescriptionLimit == 500
SoftSkillLimit == 120

\* mutant: the cut description gets no '...'
Truncate_NoEllipsis(s, n) == IF Len(s) > n THEN SubSeq(s, 1, n) ELSE s

\* (s[:n] + '...') if len(s) > n else s
Truncate(s, n) == IF Len(s) > n THEN SubSeq(s, 1, n) \o StrEllipsis ELSE s

(***************************************************************************)
(* Title and technology tokenizers.                                        *)
(***************************************************************************)
_clean_project_title(self, title) ==
    With(Strip(ReSub("hash_id", <<>>, StrOf(title))), LAMBDA t :
    IF self.reversible
    THEN _get_or_create_token(self, "project_title", PyStr(t), "PROJ")
    ELSE With(ReFindAllFrom("alnum_run", t, 1), LAMBDA words :
         With(Join(<<"_">>, SubSeq(words, 1, Min({5, Len(words)}))), LAMBDA short :
         Return(self, HStr(PrefixChars["PROJ"] \o <<"_">>,
                           _hash_text(short, self.salt), 8, <<>>)))))

\* mutant: the technology name is trimmed but not lowercased
RECURSIVE TokenizeTechLoop_NoLower(_, _, _)
TokenizeTechLoop_NoLower(self, techs, tokens) ==
    IF techs = <<>> THEN Return(self, PyList(tokens))
    ELSE LET tclean == Strip(StrOf(Head(techs))) IN
         IF tclean = <<>> THEN TokenizeTechLoop_NoLower(self, Tail(techs), tokens)
         ELSE IF self.reversible
         THEN Then(_get_or_create_token(self, "technology", PyStr(tclean), "TECH"),
                   LAMBDA r : TokenizeTechLoop_NoLower(r.self, Tail(techs), Append(tokens, r.val)))
         ELSE TokenizeTechLoop_NoLower(self, Tail(techs),
                  Append(tokens, HStr(PrefixChars["TECH"] \o <<"_">>,
                                      _hash_text(tclean, self.salt), 6, <<>>)))

\* the loop of _tokenize_technologies over the remaining techs
RECURSIVE TokenizeTechLoop(_, _, _)
TokenizeTechLoop(self, techs, tokens) ==
    IF techs = <<>> THEN Return(self, PyList(tokens))
    ELSE LET tclean == Lower(Strip(StrOf(Head(techs)))) IN
         IF tclean = <<>> THEN TokenizeTechLoop(self, Tail(techs), tokens)
         ELSE IF self.reversible
         THEN Then(_get_or_create_token(self, "technology", PyStr(tclean), "TECH"),
                   LAMBDA r : TokenizeTechLoop(r.self, Tail(techs), Append(tokens, r.val)))
         ELSE TokenizeTechLoop(self, Tail(techs),
                  Append(tokens, HStr(PrefixChars["TECH"] \o <<"_">>,
                                      _hash_text(tclean, self.salt), 6, <<>>)))

_tokenize_technologies(self, techs) == TokenizeTechLoop(self, techs, <<>>)

(***************************************************************************)
(* dict and container helpers.                                             *)
(***************************************************************************)
DictGet(d, k, default) == IF k \in DOMAIN d THEN d[k] ELSE default

DictSet(d, k, x) == (k :> x) @@ d

DictPop(d, k) == [x \in DOMAIN d \ {k} |-> d[x]]

\* the characters of the entry keys the anonymizers look for
KeyChars ==
    [university |-> <<"u", "n", "i", "v", "e", "r", "s", "i", "t", "y">>,
     company |-> <<"c", "o", "m", "p", "a", "n", "y">>,
     job_title |-> <<"j", "o", "b", "_", "t", "i", "t", "l", "e">>,
     title |-> <<"t", "i", "t", "l", "e">>,
     description |-> <<"d", "e", "s", "c", "r", "i", "p", "t", "i", "o", "n">>,
     technologies |-> <<"t", "e", "c", "h", "n", "o", "l", "o", "g", "i", "e", "s">>]

\* key in x:  exc stands for the TypeError of a non-container
KeyIn(key, x) ==
    CASE x.t = "dict" -> [exc |-> FALSE, v |-> key \in DOMAIN x.v]
      [] x.t = "str" -> [exc |-> FALSE, v |-> Contains(x.v, KeyChars[key])]
      [] x.t = "list" -> [exc |-> FALSE, v |-> \E i \in DOMAIN x.v : x.v[i] = PyStr(KeyChars[key])]
      [] OTHER -> [exc |-> TRUE, v |-> FALSE]

\* for e in x:  ok is FALSE when x is not iterable (TypeError)
Iter(x) ==
    CASE x.t = "list" -> [ok |-> TRUE, items |-> x.v]
      [] x.t = "str" -> [ok |-> TRUE, items |-> [i \in 1..Len(x.v) |-> PyStr(<<x.v[i]>>)]]
      [] x.t \in {"int", "none"} -> [ok |-> FALSE, items |-> <<>>]

\* the section after safe_parse, {} for a missing (None) section
Normalized(field) == IF field # PyNone THEN safe_parse(field) ELSE PyDict(EmptyDict)

(***************************************************************************)
(* Section Anonymizers.                                                    *)
(***************************************************************************)
AllPersonalFields ==
    <<"name", "contact_email", "contact_phone", "age", "gender", "location">>

\* the characters of the personal_info keys
FieldChars ==
    [name |-> <<"n", "a", "m", "e">>,
     contact_email |-> <<"c", "o", "n", "t", "a", "c", "t", "_", "e", "m", "a", "i", "l">>,
     contact_phone |-> <<"c", "o", "n", "t", "a", "c", "t", "_", "p", "h", "o", "n", "e">>,
     age |-> <<"a", "g", "e">>,
     gender |-> <<"g", "e", "n", "d", "e", "r">>,
     location |-> <<"l", "o", "c", "a", "t", "i", "o", "n">>]

anonymize_personal_info(self, personal_field, fields_to_mask) ==
    LET personal == Normalized(personal_field) IN
    IF personal.t # "dict" THEN Return(self, PyDict(EmptyDict))
    ELSE
    LET ftm == IF fields_to_mask = <<>>
               THEN [i \in 1..Len(AllPersonalFields) |-> FieldChars[AllPersonalFields[i]]]
               ELSE fields_to_mask
        \* 'k' in out and 'k' in fields_to_mask
        sel(k) == k \in DOMAIN personal.v /\ FieldChars[k] \in Range(ftm)
    IN
    Then(IF sel("name")
         THEN SetItem(personal.v, "name", _anonymize_name(self, personal.v["name"]))
         ELSE Return(self, personal),
    LAMBDA r1 :
    Then(IF sel("contact_email")
         THEN SetItem(r1.val.v, "contact_email",
                      _mask_email(r1.self, personal.v["contact_email"]))
         ELSE r1,
    LAMBDA r2 :
    Then(IF sel("contact_phone")
         THEN SetItem(r2.val.v, "contact_phone",
                      _mask_phone(r2.self, personal.v["contact_phone"]))
         ELSE r2,
    LAMBDA r3 :
    With(IF sel("age")
         THEN DictSet(r3.val.v, "age", AgeBucket(personal.v["age"]))
         ELSE r3.val.v,
    LAMBDA out4 :
    With(IF sel("gender") THEN DictSet(out4, "gender", PyStr(StrUndisclosed)) ELSE out4,
    LAMBDA out5 :
    IF sel("location")
    THEN SetItem(out5, "location", _anonymize_location(r3.self, personal.v["location"]))
    ELSE Return(r3.self, PyDict(out5)))))))

\* mutant: without numeric preservation only the grade is dropped
EducationEntry_KeepYear(self, e) ==
    LET has == KeyIn("university", e) IN
    IF has.exc \/ (has.v /\ e.t # "dict") THEN Raise(self)
    ELSE
    Then(IF ~has.v THEN Return(self, e)
         ELSE SetItem(e.v, "university",
                  IF Truthy(e.v["university"])
                  THEN _get_or_create_token(self, "university", e.v["university"], "UNIV")
                  ELSE Return(self, PyStr(PrefixChars["UNIV"] \o <<"_">> \o StrUNKNOWN))),
    LAMBDA r :
    IF self.preserve_numeric_features THEN r
    ELSE IF r.val.t # "dict" THEN Raise(r.self)
    ELSE Return(r.self, PyDict(DictPop(r.val.v, "grade"))))

\* one iteration of the loop of anonymize_education
EducationEntry(self, e) ==
    LET has == KeyIn("university", e) IN
    IF has.exc \/ (has.v /\ e.t # "dict") THEN Raise(self)
    ELSE
    Then(IF ~has.v THEN Return(self, e)
         ELSE SetItem(e.v, "university",
                  IF Truthy(e.v["university"])
                  THEN _get_or_create_token(self, "university", e.v["university"], "UNIV")
                  ELSE Return(self, PyStr(PrefixChars["UNIV"] \o <<"_">> \o StrUNKNOWN))),
    LAMBDA r :
    IF self.preserve_numeric_features THEN r
    ELSE IF r.val.t # "dict" THEN Raise(r.self)
    ELSE Return(r.self, PyDict(DictPop(DictPop(r.val.v, "grade"), "year"))))

\* one iteration of the loop of anonymize_experience
ExperienceEntry(self, e) ==
    LET has == KeyIn("company", e)
        hasTitle == KeyIn("job_title", e)
    IN
    IF has.exc \/ (has.v /\ e.t # "dict") THEN Raise(self)
    ELSE
    Then(IF ~has.v THEN Return(self, e)
         ELSE SetItem(e.v, "company",
                  IF Truthy(e.v["company"])
                  THEN _get_or_create_token(self, "company", e.v["company"], "ORG")
                  ELSE Return(self, PyStr(PrefixChars["ORG"] \o <<"_">> \o StrUNKNOWN))),
    LAMBDA r :
    IF hasTitle.exc \/ (hasTitle.v /\ e.t # "dict") THEN Raise(r.self)
    ELSE IF ~hasTitle.v THEN r
    ELSE Return(r.self,
             PyDict(DictSet(r.val.v, "job_title",
                 PyStr(ReSub("email_or_digits5", <<>>, StrOf(e.v["job_title"])))))))

\* the list of technology names of one project entry
TechsList(techs) ==
    CASE techs.t = "str" ->
            LET parts == Split(techs.v, "|")
                kept == SelectSeq(parts, LAMBDA t : Strip(t) # <<>>)
            IN  [i \in 1..Len(kept) |-> PyStr(Strip(kept[i]))]
      [] techs.t = "list" -> techs.v
      [] OTHER -> <<>>

\* one iteration of the loop of anonymize_projects
ProjectEntry(self, p) ==
    LET hasTitle == KeyIn("title", p)
        hasDesc == KeyIn("description", p)
        hasTechs == KeyIn("technologies", p)
    IN
    IF hasTitle.exc \/ (hasTitle.v /\ p.t # "dict") THEN Raise(self)
    ELSE
    Then(IF ~hasTitle.v THEN Return(self, p)
         ELSE SetItem(p.v, "title", _clean_project_title(self, p.v["title"])),
    LAMBDA r1 :
    Then(IF hasDesc.v /\ p.t # "dict" THEN Raise(r1.self)
         ELSE IF ~hasDesc.v THEN r1
         ELSE With(ReSub("phone", StrPhoneTag,
                         ReSub("email", StrEmailTag, StrOf(p.v["description"]))),
                   LAMBDA desc :
                   Return(r1.self,
                       PyDict(DictSet(r1.val.v, "description",
                                      PyStr(Truncate(desc, DescriptionLimit)))))),
    LAMBDA r2 :
    IF hasTechs.v /\ p.t # "dict" THEN Raise(r2.self)
    ELSE IF ~hasTechs.v THEN r2
    ELSE SetItem(r2.val.v, "technologies",
             _tokenize_technologies(r2.self, TechsList(p.v["technologies"])))))

\* mutant: only the issuer is removed
CertificationEntry_KeepId(self, c) ==
    IF c.t # "dict" THEN Raise(self)
    ELSE LET c1 == DictPop(c.v, "issuer")
         IN  IF "name" \in DOMAIN c1
             THEN Return(self, PyDict(DictSet(c1, "name",
                      PyStr(ReSub("hash_id_or_digits6", <<>>, StrOf(c1["name"]))))))
             ELSE Return(self, PyDict(c1))

\* one iteration of the loop of anonymize_certifications
CertificationEntry(self, c) ==
    IF c.t # "dict" THEN Raise(self)   \* no pop(key, default) on a non-dict
    ELSE LET c1 == DictPop(DictPop(c.v, "issuer"), "id")
         IN  IF "name" \in DOMAIN c1
             THEN Return(self, PyDict(DictSet(c1, "name",
                      PyStr(ReSub("hash_id_or_digits6", <<>>, StrOf(c1["name"]))))))
             ELSE Return(self, PyDict(c1))

EntryStep(self, section, e) ==
    CASE section = "education" -> EducationEntry(self, e)
      [] section = "experience" -> ExperienceEntry(self, e)
      [] section = "projects" -> ProjectEntry(self, e)
      [] section = "certifications" -> CertificationEntry(self, e)

\* for e in entries: ... new_entries.append(e_new)
RECURSIVE EntriesLoop(_, _, _, _)
EntriesLoop(self, section, entries, new_entries) ==
    IF entries = <<>> THEN Return(self, PyList(new_entries))
    ELSE Then(EntryStep(self, section, Head(entries)),
              LAMBDA r : EntriesLoop(r.self, section, Tail(entries),
                                     Append(new_entries, r.val)))

\* the common frame of the four anonymizers of sections with 'entries'
AnonymizeEntriesSection(self, section, field) ==
    LET sec == Normalized(field) IN
    IF sec.t # "dict" THEN Return(self, PyDict(EmptyDict))
    ELSE LET it == Iter(DictGet(sec.v, "entries", PyList(<<>>)))
         IN  IF ~it.ok THEN Raise(self)
             ELSE SetItem(sec.v, "entries", EntriesLoop(self, section, it.items, <<>>))

anonymize_education(self, education_field) ==
    AnonymizeEntriesSection(self, "education", education_field)

anonymize_experience(self, experience_field) ==
    AnonymizeEntriesSection(self, "experience", experience_field)

anonymize_projects(self, projects_field) ==
    AnonymizeEntriesSection(self, "projects", projects_field)

anonymize_certifications(self, cert_field) ==
    AnonymizeEntriesSection(self, "certifications", cert_field)

\* x if isinstance(x, (list, tuple)) else [x]
AsList(x) == IF x.t = "list" THEN x.v ELSE <<x>>

\* mutant: a skills value that is not a mapping yields the two empty lists
anonymize_skills_EmptyLists(self, skills_field) ==
    LET skills == Normalized(skills_field) IN
    IF skills.t # "dict"
    THEN Return(self, PyDict([technical |-> PyList(<<>>), soft |-> PyList(<<>>)]))
    ELSE LET techs == DictGet(skills.v, "technical", PyList(<<>>))
             softs == AsList(DictGet(skills.v, "soft", PyList(<<>>)))
             new_soft == [i \in 1..Len(softs) |->
                            PyStr(Truncate(ReSub("pronoun", StrPersonTag, StrOf(softs[i])),
                                           SoftSkillLimit))]
         IN  Then(SetItem(skills.v, "technical",
                          _tokenize_technologies(self, AsList(techs))),
                  LAMBDA r : Return(r.self,
                                    PyDict(DictSet(r.val.v, "soft", PyList(new_soft)))))

anonymize_skills(self, skills_field) ==
    LET skills == Normalized(skills_field) IN
    IF skills.t # "dict" THEN Return(self, PyDict(EmptyDict))
    ELSE LET techs == DictGet(skills.v, "technical", PyList(<<>>))
             softs == AsList(DictGet(skills.v, "soft", PyList(<<>>)))
             new_soft == [i \in 1..Len(softs) |->
                            PyStr(Truncate(ReSub("pronoun", StrPersonTag, StrOf(softs[i])),
                                           SoftSkillLimit))]
         IN  Then(SetItem(skills.v, "technical",
                          _tokenize_technologies(self, AsList(techs))),
                  LAMBDA r : Return(r.self,
                                    PyDict(DictSet(r.val.v, "soft", PyList(new_soft)))))

(***************************************************************************)
(* Record Assembler.                                                       *)
(***************************************************************************)
StrPersonalInfo == <<"p", "e", "r", "s", "o", "n", "a", "l", "_", "i", "n", "f", "o">>

default_fields ==
    <<<<"p", "e", "r", "s", "o", "n", "a", "l", "_", "i", "n", "f", "o", ".", "n", "a", "m", "e">>,
      <<"p", "e", "r", "s", "o", "n", "a", "l", "_", "i", "n", "f", "o", ".", "c", "o", "n", "t", "a", "c", "t", "_", "e", "m", "a", "i", "l">>,
      <<"p", "e", "r", "s", "o", "n", "a", "l", "_", "i", "n", "f", "o", ".", "c", "o", "n", "t", "a", "c", "t", "_", "p", "h", "o", "n", "e">>,
      <<"p", "e", "r", "s", "o", "n", "a", "l", "_", "i", "n", "f", "o", ".", "a", "g", "e">>,
      <<"p", "e", "r", "s", "o", "n", "a", "l", "_", "i", "n", "f", "o", ".", "g", "e", "n", "d", "e", "r">>,
      <<"p", "e", "r", "s", "o", "n", "a", "l", "_", "i", "n", "f", "o", ".", "l", "o", "c", "a", "t", "i", "o", "n">>,
      <<"e", "d", "u", "c", "a", "t", "i", "o", "n", ".", "u", "n", "i", "v", "e", "r", "s", "i", "t", "y">>,
      <<"e", "x", "p", "e", "r", "i", "e", "n", "c", "e", ".", "c", "o", "m", "p", "a", "n", "y">>,
      <<"p", "r", "o", "j", "e", "c", "t", "s", ".", "t", "i", "t", "l", "e">>,
      <<"p", "r", "o", "j", "e", "c", "t", "s", ".", "d", "e", "s", "c", "r", "i", "p", "t", "i", "o", "n">>,
      <<"p", "r", "o", "j", "e", "c", "t", "s", ".", "t", "e", "c", "h", "n", "o", "l", "o", "g", "i", "e", "s">>,
      <<"s", "k", "i", "l", "l", "s", ".", "t", "e", "c", "h", "n", "i", "c", "a", "l">>>>

\* s.startswith(p)
StartsWith(s, p) == Len(s) >= Len(p) /\ SubSeq(s, 1, Len(p)) = p

\* [f.split('.')[-1] for f in detected_fields if f.startswith('personal_info')]
FieldsToMask(fields) ==
    LET kept == SelectSeq(fields, LAMBDA f : StartsWith(f, StrPersonalInfo))
    IN  [i \in 1..Len(kept) |-> LastSegment(kept[i], ".")]

\* mutant: the experience section is anonymized only when the whitelist names
\* one of its paths
anonymize_record_Whitelisted(self, record, detected_fields) ==
    LET fields == IF Truthy(detected_fields)
                  THEN [i \in 1..Len(detected_fields.v) |-> detected_fields.v[i].v]
                  ELSE default_fields
        get(rec, k) == DictGet(rec.val.v, k, PyNone)
        scores == {"raw_score", "bias_score", "bias_label"}
        listed == \E i \in DOMAIN fields :
                      StartsWith(fields[i], <<"e", "x", "p", "e", "r", "i", "e", "n", "c", "e">>)
    IN
    Then(SetItem(record.v, "personal_info",
             anonymize_personal_info(self, DictGet(record.v, "personal_info", PyNone),
                                     FieldsToMask(fields))),
    LAMBDA r1 :
    Then(SetItem(r1.val.v, "education",
             anonymize_education(r1.self, get(r1, "education"))),
    LAMBDA r2 :
    Then(SetItem(r2.val.v, "experience",
             IF listed THEN anonymize_experience(r2.self, get(r2, "experience"))
             ELSE Return(r2.self, get(r2, "experience"))),
    LAMBDA r3 :
    Then(SetItem(r3.val.v, "projects",
             anonymize_projects(r3.self, get(r3, "projects"))),
    LAMBDA r4 :
    Then(SetItem(r4.val.v, "certifications",
             anonymize_certifications(r4.self, get(r4, "certifications"))),
    LAMBDA r5 :
    Then(SetItem(r5.val.v, "skills",
             anonymize_skills(r5.self, get(r5, "skills"))),
    LAMBDA rec :
    IF self.preserve_numeric_features THEN rec
    ELSE Return(rec.self, PyDict([k \in DOMAIN rec.val.v \ scores |-> rec.val.v[k]]))))))))

\* detected_fields is None or a list of str
anonymize_record(self, record, detected_fields) ==
    LET fields == IF Truthy(detected_fields)
                  THEN [i \in 1..Len(detected_fields.v) |-> detected_fields.v[i].v]
                  ELSE default_fields
        get(rec, k) == DictGet(rec.val.v, k, PyNone)
        scores == {"raw_score", "bias_score", "bias_label"}
    IN
    Then(SetItem(record.v, "personal_info",
             anonymize_personal_info(self, DictGet(record.v, "personal_info", PyNone),
                                     FieldsToMask(fields))),
    LAMBDA r1 :
    Then(SetItem(r1.val.v, "education",
             anonymize_education(r1.self, get(r1, "education"))),
    LAMBDA r2 :
    Then(SetItem(r2.val.v, "experience",
             anonymize_experience(r2.self, get(r2, "experience"))),
    LAMBDA r3 :
    Then(SetItem(r3.val.v, "projects",
             anonymize_projects(r3.self, get(r3, "projects"))),
    LAMBDA r4 :
    Then(SetItem(r4.val.v, "certifications",
             anonymize_certifications(r4.self, get(r4, "certifications"))),
    LAMBDA r5 :
    Then(SetItem(r5.val.v, "skills",
             anonymize_skills(r5.self, get(r5, "skills"))),
    LAMBDA rec :
    IF self.preserve_numeric_features THEN rec
    ELSE Return(rec.self, PyDict([k \in DOMAIN rec.val.v \ scores |-> rec.val.v[k]]))))))))

(***************************************************************************)
(* Inputs.                                                                 *)
(***************************************************************************)
Salts == {<<>>, <<"s">>}

IdPrefixes == {DEFAULT_ID_PREFIX, <<"I", "D">>}

\* records passed to anonymize_record
RecBase ==
    PyDict([personal_info |-> PyDict([name |-> PyStr(<<"b", "o", "b">>), contact_email |-> PyStr(<<"a", "@", "b", ".", "c">>), contact_phone |-> PyStr(<<"1", "2", "3", "4", "5">>), age |-> PyInt(28), gender |-> PyStr(<<"m">>), location |-> PyStr(<<"R", "e", "m", "o", "t", "e">>)]), education |-> PyDict([entries |-> PyList(<<PyDict([degree |-> PyStr(<<"b", "s">>), university |-> PyStr(<<"m", "i", "t">>), year |-> PyInt(2012), grade |-> PyInt(7)]), PyDict([university |-> PyStr(<<"m", "i", "t">>)])>>)]), experience |-> PyDict([entries |-> PyList(<<PyDict([job_title |-> PyStr(<<"e", "n", "g", " ", "1", "2", "3", "4", "5">>), company |-> PyStr(<<"a", "c", "m", "e">>)]), PyDict([company |-> PyStr(<<>>)])>>)]), projects |-> PyDict([entries |-> PyList(<<PyDict([title |-> PyStr(<<"c", "h", "a", "t", " ", "#", "7", "6">>), description |-> PyStr(<<"m", "a", "i", "l", " ", "a", "@", "b", ".", "c">>), technologies |-> PyStr(<<"R", "e", "a", "c", "t", "|", "N", "o", "d", "e">>)])>>)]), certifications |-> PyDict([entries |-> PyList(<<PyDict([name |-> PyStr(<<"a", "w", "s", " ", "#", "1", "2">>), issuer |-> PyStr(<<"a", "m", "z">>), id |-> PyStr(<<"7", "7">>)])>>)]), skills |-> PyDict([technical |-> PyList(<<PyStr(<<"p", "y">>), PyStr(<<" ">>)>>), soft |-> PyList(<<PyStr(<<"m", "y", " ", "j", "o", "b">>)>>)]), raw_score |-> PyInt(3), bias_label |-> PyStr(<<"M", "e", "d", "i", "u", "m">>)])

RecEmpty ==
    PyDict(EmptyDict)

RecScoresOnly ==
    PyDict([raw_score |-> PyInt(3), bias_score |-> PyInt(4)])

RecPersonalPartial ==
    PyDict([personal_info |-> PyDict([name |-> PyStr(<<" ", "a", "l">>), age |-> PyStr(<<"x">>), hobby |-> PyStr(<<"g", "o">>)])])

RecPersonalLit ==
    PyDict([personal_info |-> PyLit(PyDict([name |-> PyStr(<<"b", "o", "b">>), gender |-> PyStr(<<"f">>)]))])

RecPersonalJunk ==
    PyDict([personal_info |-> PyStr(<<"j", "u", "n", "k">>)])

RecPersonalList ==
    PyDict([personal_info |-> PyList(<<PyStr(<<"b", "o", "b">>)>>)])

RecEducationNoEntries ==
    PyDict([education |-> PyDict([has_education |-> PyInt(0)])])

RecEducationEntriesInt ==
    PyDict([education |-> PyDict([entries |-> PyInt(5)])])

RecEducationEntryInt ==
    PyDict([education |-> PyDict([entries |-> PyList(<<PyDict([university |-> PyStr(<<"c", "a", "l">>)]), PyInt(1)>>)])])

RecEducationEntriesStr ==
    PyDict([education |-> PyDict([entries |-> PyStr(<<"a", "b">>)])])

RecEducationLitList ==
    PyDict([education |-> PyLit(PyList(<<PyInt(1)>>))])

RecEducationBlank ==
    PyDict([education |-> PyDict([entries |-> PyList(<<PyDict([university |-> PyStr(<<" ">>), grade |-> PyInt(7)]), PyDict([university |-> PyStr(<<>>)])>>)])])

RecExperienceEntryNone ==
    PyDict([experience |-> PyDict([entries |-> PyList(<<PyNone>>)])])

RecProjectsTechList ==
    PyDict([projects |-> PyDict([entries |-> PyList(<<PyDict([technologies |-> PyList(<<PyStr(<<"P", "y">>), PyStr(<<"p", "y", " ">>), PyStr(<<>>)>>)])>>)])])

RecCertificationsEntryStr ==
    PyDict([certifications |-> PyDict([entries |-> PyList(<<PyStr(<<"x">>)>>)])])

RecSkillsEmpty ==
    PyDict([skills |-> PyDict(EmptyDict)])

RecSkillsScalar ==
    PyDict([skills |-> PyDict([technical |-> PyStr(<<"p", "y">>), soft |-> PyStr(<<"I", " ", "c", "o", "d", "e">>)])])

RecSkillsJunk ==
    PyDict([skills |-> PyStr(<<"j", "u", "n", "k">>)])

RecPool ==
    {RecBase,
     RecEmpty,
     RecScoresOnly,
     RecPersonalPartial,
     RecPersonalLit,
     RecPersonalJunk,
     RecPersonalList,
     RecEducationNoEntries,
     RecEducationEntriesInt,
     RecEducationEntryInt,
     RecEducationEntriesStr,
     RecEducationLitList,
     RecEducationBlank,
     RecExperienceEntryNone,
     RecProjectsTechList,
     RecCertificationsEntryStr,
     RecSkillsEmpty,
     RecSkillsScalar,
     RecSkillsJunk}

\* detected_fields arguments
DfEmpty == PyList(<<>>)

DfName == PyList(<<PyStr(<<"p", "e", "r", "s", "o", "n", "a", "l", "_", "i", "n", "f", "o", ".", "n", "a", "m", "e">>)>>)

DfCompany == PyList(<<PyStr(<<"e", "x", "p", "e", "r", "i", "e", "n", "c", "e", ".", "c", "o", "m", "p", "a", "n", "y">>)>>)

DfAgeGender == PyList(<<PyStr(<<"p", "e", "r", "s", "o", "n", "a", "l", "_", "i", "n", "f", "o", ".", "a", "g", "e">>), PyStr(<<"p", "e", "r", "s", "o", "n", "a", "l", "_", "i", "n", "f", "o", ".", "g", "e", "n", "d", "e", "r">>)>>)

DfPool == {PyNone, DfEmpty, DfName, DfCompany, DfAgeGender}

\* (record, detected_fields) arguments of anonymize_record
RecInputs == (RecPool \X {PyNone}) \cup ({RecBase, RecPersonalPartial} \X DfPool)

\* records of the batches passed to anonymize_dataset
DataGood ==
    PyDict([personal_info |-> PyDict([name |-> PyStr(<<"b", "o", "b">>)]), education |-> PyDict([entries |-> PyList(<<PyDict([university |-> PyStr(<<"m", "i", "t">>)])>>)]), raw_score |-> PyInt(3)])

DataBad ==
    PyDict([education |-> PyDict([entries |-> PyList(<<PyDict([university |-> PyStr(<<"c", "a", "l">>)]), PyInt(1)>>)])])

DataTwo ==
    PyDict([education |-> PyDict([entries |-> PyList(<<PyDict([university |-> PyStr(<<"c", "a", "l">>)]), PyDict([university |-> PyStr(<<"m", "i", "t">>)])>>)]), experience |-> PyDict([entries |-> PyList(<<PyDict([company |-> PyStr(<<"a", "c", "m", "e">>)])>>)]), bias_label |-> PyStr(<<"l", "o", "w">>)])

DataPool == {DataGood, DataTwo, DataBad}

Batches == UNION {[1..n -> DataPool] : n \in 0..MaxBatch}

DataDfPool == {PyNone, DfAgeGender}

\* (data, detected_fields) arguments of anonymize_dataset
DataInputs ==
    (Batches \X {PyNone}) \cup ({<<DataGood>>, <<DataGood, DataTwo>>} \X {DfAgeGender})

\* arguments of the direct tokenizer calls
TokPairs ==
    {[category |-> "university", prefix |-> "UNIV"],
     [category |-> "company", prefix |-> "ORG"],
     [category |-> "technology", prefix |-> "TECH"],
     [category |-> "project_title", prefix |-> "PROJ"],
     [category |-> "name", prefix |-> "CAND"]}

TokOriginals ==
    {PyStr(<<"m", "i", "t">>), PyStr(<<" ", "m", "i", "t">>), PyStr(<<" ">>)}

\* (masker, value) arguments of the direct masker calls
MaskInputs ==
    ({"_anonymize_name"} \X {PyStr(<<"b", "o", "b">>), PyStr(<<" ", "b", "o", "b", " ">>)})
    \cup ({"_mask_email"} \X {PyStr(<<"a", "@", "b", ".", "c">>), PyStr(<<"a", "@", "x", ".", "y", ".", "c">>), PyStr(<<"n", "o", "m", "a", "i", "l">>)})
    \cup ({"_mask_phone"} \X {PyStr(<<"+", "9", "1", " ", "1", "2", "3", "4", "5">>),
                              PyStr(<<"9", "1", "8", "4", "8", "9", "4", "3", "8", "0", "4", "4">>),
                              PyStr(<<"1", "2">>), PyStr(<<"1", "2", "-", "3", "4">>),
                              PyStr(<<"a", "1", "b", "2", "c", "3">>), PyStr(<<>>),
                              PyInt(7)})
    \cup ({"_anonymize_location"} \X {PyStr(<<"R", "e", "m", "o", "t", "e">>), PyStr(<<"n", "y">>),
                                      PyStr(<<" ", "n", "y", " ">>),
                                      PyStr(<<"n", "y", " ", "(", "R", "E", "M", "O", "T", "E", ")">>),
                                      PyStr(<<"r", "e", "m", "o", " ", "t", "e">>),
                                      PyStr(<<>>), PyStr(<<" ", " ">>)})

(***************************************************************************)
(* The mapping file.                                                       *)
(***************************************************************************)
FileAbsent == [t |-> "absent", v |-> EmptyDict]

\* json.dump({'mapping': self._mapping}, f, indent=2)
FileJson(m) == [t |-> "json", v |-> [mapping |-> m]]

\* the file after a write that failed midway
FilePartial == [t |-> "partial", v |-> EmptyDict]

(***************************************************************************)
(* Initial states: the instance after __init__, no call made yet.          *)
(***************************************************************************)
NoRet == [op |-> "none", exc |-> FALSE, arg |-> PyNone, df |-> PyNone, val |-> PyNone]

\* the threads that share the instance
Threads == {1, 2}

\* a thread that is not inside the tokenizer
IdleThread ==
    [pc |-> "idle", category |-> "", prefix |-> "", original |-> PyNone,
     original_norm |-> <<>>, n |-> 0, token |-> PyNone]

\* the instance after __init__, shared by callers that do (sync) or do not
\* serialize their calls with a lock
ConstructShared(rev, pres, slt, idp, sync) ==
    LET self == NewAnonymizer(rev, pres, slt, idp) IN
    /\ reversible = self.reversible
    /\ preserve_numeric_features = self.preserve_numeric_features
    /\ salt = self.salt
    /\ id_prefix = self.id_prefix
    /\ mapping = self.mapping
    /\ counters = self.counters
    /\ file = FileAbsent
    /\ pc = "idle"
    /\ data = <<>>
    /\ detected = PyNone
    /\ out = <<>>
    /\ writes = 0
    /\ entry = [mapping |-> self.mapping, counters |-> self.counters]
    /\ ret = NoRet
    /\ ops = 0
    /\ calls = <<>>
    /\ threads = [i \in Threads |-> IdleThread]
    /\ mutex = [sync |-> sync, holder |-> 0]
    /\ heap = <<>>
    /\ passed = <<>>
    /\ returned = <<>>

Construct(rev, pres, slt, idp) == ConstructShared(rev, pres, slt, idp, FALSE)

Init ==
    \E rev \in BOOLEAN, pres \in BOOLEAN : Construct(rev, pres, <<"s">>, DEFAULT_ID_PREFIX)

InitTok ==
    \E rev \in BOOLEAN, slt \in Salts, idp \in IdPrefixes : Construct(rev, TRUE, slt, idp)

InitThreads ==
    \E rev \in BOOLEAN, sync \in BOOLEAN :
        ConstructShared(rev, TRUE, <<"s">>, DEFAULT_ID_PREFIX, sync)

(***************************************************************************)
(* Actions.                                                                *)
(***************************************************************************)
\* a direct call  self._get_or_create_token(category, original, prefix)
Tokenize(cp, original) ==
    /\ pc = "idle"
    /\ Len(calls) < MaxCalls
    /\ With(_get_or_create_token(Self, cp.category, original, cp.prefix), LAMBDA r :
            /\ ~r.exc
            /\ mapping' = r.self.mapping
            /\ counters' = r.self.counters
            /\ calls' = Append(calls, [category |-> cp.category, prefix |-> cp.prefix,
                                       original |-> original, token |-> r.val]))
    /\ UNCHANGED <<config, objects, threads, mutex, file, pc, data, detected, out, writes, entry, ret, ops>>

\* the field masker named fn
Mask(fn, self, x) ==
    CASE fn = "_anonymize_name" -> _anonymize_name(self, x)
      [] fn = "_mask_email" -> _mask_email(self, x)
      [] fn = "_mask_phone" -> _mask_phone(self, x)
      [] fn = "_anonymize_location" -> _anonymize_location(self, x)

\* a direct call of a field masker
MaskCall(fn, x) ==
    /\ pc = "idle"
    /\ ops < MaxOps
    /\ ops' = ops + 1
    /\ With(Mask(fn, Self, x), LAMBDA r :
            /\ mapping' = r.self.mapping
            /\ counters' = r.self.counters
            /\ ret' = [op |-> fn, exc |-> r.exc, arg |-> x, df |-> PyNone, val |-> r.val])
    /\ UNCHANGED <<config, objects, threads, mutex, file, pc, data, detected, out, writes, entry, calls>>

\* a call  self.anonymize_record(record, detected_fields)
AnonymizeRecord(record, detected_fields) ==
    /\ pc = "idle"
    /\ ops < MaxOps
    /\ ops' = ops + 1
    /\ With(anonymize_record(Self, record, detected_fields), LAMBDA r :
            /\ mapping' = r.self.mapping
            /\ counters' = r.self.counters
            /\ ret' = [op |-> "anonymize_record", exc |-> r.exc, arg |-> record,
                       df |-> detected_fields, val |-> r.val])
    /\ UNCHANGED <<config, objects, threads, mutex, file, pc, data, detected, out, writes, entry, calls>>

\* anonymize_dataset is entered:  out = []
StartDataset(batch, detected_fields) ==
    /\ pc = "idle"
    /\ ops < MaxOps
    /\ ops' = ops + 1
    /\ pc' = "loop"
    /\ data' = batch
    /\ detected' = detected_fields
    /\ out' = <<>>
    /\ writes' = 0
    /\ entry' = [mapping |-> mapping, counters |-> counters]
    /\ UNCHANGED <<config, objects, threads, mutex, mapping, counters, file, ret, calls>>

\* mutant: the batch is processed from its last record to its first
DatasetStep_Reversed ==
    /\ pc = "loop"
    /\ Len(out) < Len(data)
    /\ With(anonymize_record(Self, data[Len(data) - Len(out)], detected), LAMBDA r :
            /\ mapping' = r.self.mapping
            /\ counters' = r.self.counters
            /\ IF r.exc
               THEN /\ pc' = "idle"
                    /\ ret' = [op |-> "anonymize_dataset", exc |-> TRUE,
                               arg |-> PyList(data), df |-> detected, val |-> PyNone]
                    /\ out' = out
               ELSE /\ out' = Append(out, r.val)
                    /\ UNCHANGED <<pc, ret>>)
    /\ UNCHANGED <<config, objects, threads, mutex, file, data, detected, writes, entry, ops, calls>>

\* one iteration of  for rec in data: out.append(self.anonymize_record(rec, ...))
DatasetStep ==
    /\ pc = "loop"
    /\ Len(out) < Len(data)
    /\ With(anonymize_record(Self, data[Len(out) + 1], detected), LAMBDA r :
            /\ mapping' = r.self.mapping
            /\ counters' = r.self.counters
            /\ IF r.exc
               THEN /\ pc' = "idle"
                    /\ ret' = [op |-> "anonymize_dataset", exc |-> TRUE,
                               arg |-> PyList(data), df |-> detected, val |-> PyNone]
                    /\ out' = out
               ELSE /\ out' = Append(out, r.val)
                    /\ UNCHANGED <<pc, ret>>)
    /\ UNCHANGED <<config, objects, threads, mutex, file, data, detected, writes, entry, ops, calls>>

\* mutant: the mapping is saved in both modes
LoopEnd_AlwaysSave ==
    /\ pc = "loop"
    /\ Len(out) = Len(data)
    /\ pc' = "save"
    /\ UNCHANGED <<config, objects, threads, mutex, mapping, counters, file, data, detected, out, writes, entry,
                   ret, ops, calls>>

\* the loop is over:  if self.reversible: ... else return out
LoopEnd ==
    /\ pc = "loop"
    /\ Len(out) = Len(data)
    /\ IF reversible
       THEN pc' = "save" /\ ret' = ret
       ELSE /\ pc' = "idle"
            /\ ret' = [op |-> "anonymize_dataset", exc |-> FALSE, arg |-> PyList(data),
                       df |-> detected, val |-> PyList(out)]
    /\ UNCHANGED <<config, objects, threads, mutex, mapping, counters, file, data, detected, out, writes, entry, ops, calls>>

\* mutant: only the entries created by this batch are written
SaveMapping_BatchOnly ==
    /\ pc = "save"
    /\ file' = FileJson([c \in DOMAIN mapping |->
                    [k \in DOMAIN mapping[c] \ DOMAIN entry.mapping[c] |-> mapping[c][k]]])
    /\ writes' = writes + 1
    /\ pc' = "idle"
    /\ ret' = [op |-> "anonymize_dataset", exc |-> FALSE, arg |-> PyList(data),
               df |-> detected, val |-> PyList(out)]
    /\ UNCHANGED <<config, objects, threads, mutex, mapping, counters, data, detected, out, entry, ops, calls>>

\* os.makedirs / open / json.dump succeed, then  return out
SaveMapping ==
    /\ pc = "save"
    /\ file' = FileJson(mapping)
    /\ writes' = writes + 1
    /\ pc' = "idle"
    /\ ret' = [op |-> "anonymize_dataset", exc |-> FALSE, arg |-> PyList(data),
               df |-> detected, val |-> PyList(out)]
    /\ UNCHANGED <<config, objects, threads, mutex, mapping, counters, data, detected, out, entry, ops, calls>>

\* mutant: a failed write is attempted again
SaveFails_Retry ==
    /\ pc = "save"
    /\ file' \in {file, FilePartial}
    /\ UNCHANGED <<config, objects, threads, mutex, mapping, counters, pc, data, detected, out, writes, entry,
                   ret, ops, calls>>

\* os.makedirs or open raises (file untouched) or json.dump raises midway
SaveFails ==
    /\ pc = "save"
    /\ file' \in {file, FilePartial}
    /\ pc' = "idle"
    /\ ret' = [op |-> "anonymize_dataset", exc |-> TRUE, arg |-> PyList(data),
               df |-> detected, val |-> PyNone]
    /\ UNCHANGED <<config, objects, threads, mutex, mapping, counters, data, detected, out, writes, entry, ops, calls>>

(***************************************************************************)
(* Specifications.                                                         *)
(***************************************************************************)
\* records and batches through the public interface of one instance
Next ==
    \/ \E record \in DataPool, df \in DataDfPool : AnonymizeRecord(record, df)
    \/ \E in \in DataInputs : StartDataset(in[1], in[2])
    \/ DatasetStep
    \/ LoopEnd
    \/ SaveMapping
    \/ SaveFails

Spec == Init /\ [][Next]_vars

\* single records of every shape through anonymize_record
NextRec == \E in \in RecInputs : AnonymizeRecord(in[1], in[2])

SpecRec == Init /\ [][NextRec]_vars

\* direct calls of the Entity Tokenizer
NextTok == \E cp \in TokPairs, original \in TokOriginals : Tokenize(cp, original)

SpecTok == InitTok /\ [][NextTok]_vars

\* field maskers called between records
NextMask ==
    \/ \E in \in MaskInputs : MaskCall(in[1], in[2])
    \/ \E record \in DataPool : AnonymizeRecord(record, PyNone)

SpecMask == InitTok /\ [][NextMask]_vars

Sections ==
    {"personal_info", "education", "experience", "projects", "certifications", "skills"}

\* the section anonymizers called one at a time
AnonymizerOf ==
    [personal_info |-> "anonymize_personal_info",
     education |-> "anonymize_education",
     experience |-> "anonymize_experience",
     projects |-> "anonymize_projects",
     certifications |-> "anonymize_certifications",
     skills |-> "anonymize_skills"]

\* fields_to_mask as the list of names the anonymizer iterates, <<>> for None
FtmArg(fields_to_mask) ==
    IF Truthy(fields_to_mask)
    THEN [i \in 1..Len(fields_to_mask.v) |-> fields_to_mask.v[i].v]
    ELSE <<>>

SectionAnonymizer(section, self, field, fields_to_mask) ==
    CASE section = "personal_info" ->
             anonymize_personal_info(self, field, FtmArg(fields_to_mask))
      [] section = "education" -> anonymize_education(self, field)
      [] section = "experience" -> anonymize_experience(self, field)
      [] section = "projects" -> anonymize_projects(self, field)
      [] section = "certifications" -> anonymize_certifications(self, field)
      [] section = "skills" -> anonymize_skills(self, field)

\* a direct call of one section anonymizer
SectionCall(section, field, fields_to_mask) ==
    /\ pc = "idle"
    /\ ops < MaxOps
    /\ ops' = ops + 1
    /\ With(SectionAnonymizer(section, Self, field, fields_to_mask), LAMBDA r :
            /\ mapping' = r.self.mapping
            /\ counters' = r.self.counters
            /\ ret' = [op |-> AnonymizerOf[section], exc |-> r.exc, arg |-> field,
                       df |-> fields_to_mask, val |-> r.val])
    /\ UNCHANGED <<config, objects, threads, mutex, file, pc, data, detected, out, writes, entry, calls>>

\* values of personal_info['age']
AgePool ==
    {PyInt(0 - 1), PyInt(0), PyInt(25), PyInt(26), PyInt(35), PyInt(36), PyInt(45),
     PyInt(46), PyInt(120),
     PyStr(<<"3", "0">>), PyStr(<<" ", "7", " ">>), PyStr(<<"-", "3">>),
     PyStr(<<"+", "4", "6">>), PyStr(<<"0", "7">>), PyStr(<<"1", "_", "0">>),
     PyStr(<<"x">>), PyStr(<<>>), PyStr(<<"4", ".", "5">>), PyStr(<<"2", "5", "_">>),
     PyNone, PyList(<<>>), PyDict(EmptyDict)}

\* fields_to_mask arguments of anonymize_personal_info
FtmAge == PyList(<<PyStr(<<"a", "g", "e">>)>>)

FtmName == PyList(<<PyStr(<<"n", "a", "m", "e">>)>>)

\* section values that do not normalize to a mapping
NonMappings ==
    {PyStr(<<"j", "u", "n", "k">>), PyStr(<<>>), PyStr(<<"{", "'", "a", "'", " ", "1", "}">>),
     PyStr(<<"[", "1", "]">>), PyStr(<<"5">>), PyLit(PyList(<<PyInt(1)>>)),
     PyLit(PyInt(5)), PyList(<<PyDict([entries |-> PyList(<<>>)])>>), PyInt(5)}

\* (section, value, fields_to_mask) arguments of the direct section calls
SectionInputs ==
    ({"personal_info"} \X {PyDict([age |-> a]) : a \in AgePool} \X {PyNone})
    \cup ({"personal_info"}
            \X {PyDict([age |-> PyInt(25), name |-> PyStr(<<"b", "o", "b">>)]),
                PyLit(PyDict([age |-> PyStr(<<"4", "6">>)]))}
            \X {PyNone, DfEmpty, FtmAge, FtmName})
    \cup (Sections \X NonMappings \X {PyNone})
    \cup {<<s, RecBase.v[s], PyNone>> : s \in Sections}
    \cup {<<s, PyNone, PyNone>> : s \in Sections}
    \cup {<<"skills", PyDict([technical |-> PyList(<<PyStr(<<"p", "y">>), PyStr(<<"p", "y">>)>>)]), PyNone>>,
          <<"projects", RecProjectsTechList.v["projects"], PyNone>>,
          <<"education", RecEducationBlank.v["education"], PyNone>>,
          <<"education", PyStr(<<"{", "'", "e", "n", "t", "r", "i", "e", "s", "'", ":", " ", "[", "]", "}">>), PyNone>>}

\* originals of the tokenizer calls made between section calls
BlankOriginals == {PyStr(<<>>), PyStr(<<" ">>), PyStr(<<" ", " ">>)}

SectionTokOriginals == BlankOriginals \cup {PyStr(<<"m", "i", "t">>), PyNone, PyInt(0)}

\* a call  self._get_or_create_token(category, original, prefix)  whose
\* arguments and outcome are kept in ret
TokenizerCall(cp, original) ==
    /\ pc = "idle"
    /\ ops < MaxOps
    /\ ops' = ops + 1
    /\ With(_get_or_create_token(Self, cp.category, original, cp.prefix), LAMBDA r :
            /\ mapping' = r.self.mapping
            /\ counters' = r.self.counters
            /\ ret' = [op |-> "_get_or_create_token", exc |-> r.exc, arg |-> original,
                       df |-> PyStr(PrefixChars[cp.prefix]), val |-> r.val])
    /\ UNCHANGED <<config, objects, threads, mutex, file, pc, data, detected, out, writes, entry, calls>>

\* arguments of the direct safe_parse calls
ParseInputs ==
    {PyStr(<<>>),
     PyStr(<<"j", "u", "n", "k">>),
     PyStr(<<"5">>),
     PyStr(<<" ", "5", " ">>),
     PyStr(<<"-", "5">>),
     PyStr(<<"0", "7">>),
     PyStr(<<"'", "a", "b", "'">>),
     PyStr(<<"[", "1", ",", " ", "2", "]">>),
     PyStr(<<"[", "1", ",">>),
     PyStr(<<"[", "]">>),
     PyStr(<<"{", "}">>),
     PyStr(<<"{", "'", "a", "'", ":", " ", "1", "}">>),
     PyStr(<<"{", "'", "a", "'", ":", " ", "[", "1", ",", " ", "'", "b", "'", "]", ",", " ", "'", "c", "'", ":", " ", "N", "o", "n", "e", "}">>),
     PyStr(<<"{", "'", "a", "'", " ", "1", "}">>),
     PyStr(<<"N", "o", "n", "e">>),
     PyStr(<<"'", "a", "b">>),
     PyStr(<<"{", "'", "e", "n", "t", "r", "i", "e", "s", "'", ":", " ", "[", "]", "}">>),
     PyStr(<<"[", "1", "]">>),
     PyInt(5),
     PyNone,
     PyList(<<PyInt(1)>>),
     PyDict([a |-> PyStr(<<"5">>)]),
     PyList(<<PyStr(<<"[", "1", "]">>)>>)}

\* a call  safe_parse(s)  of the module-level function
SafeParseCall(s) ==
    /\ pc = "idle"
    /\ ops < MaxOps
    /\ ops' = ops + 1
    /\ ret' = [op |-> "safe_parse", exc |-> FALSE, arg |-> s, df |-> PyNone,
               val |-> safe_parse(s)]
    /\ UNCHANGED <<config, objects, threads, mutex, mapping, counters, file, pc, data, detected, out,
                   writes, entry, calls>>

NextSection ==
    \/ \E in \in SectionInputs : SectionCall(in[1], in[2], in[3])
    \/ \E s \in ParseInputs : SafeParseCall(s)
    \/ \E cp \in TokPairs, original \in SectionTokOriginals : TokenizerCall(cp, original)

SpecSection == Init /\ [][NextSection]_vars

(***************************************************************************)
(* _get_or_create_token run by two threads on one instance, one statement  *)
(* (one read or write of the shared tables) at a time.                     *)
(***************************************************************************)
\* arguments of the threads' tokenizer calls
ThreadPairs ==
    {[category |-> "university", prefix |-> "UNIV"],
     [category |-> "company", prefix |-> "ORG"]}

ThreadOriginals == {PyStr(<<"m", "i", "t">>), PyStr(<<" ">>)}

\* calls finished or under way
CallsBegun == Len(calls) + Cardinality({i \in Threads : threads[i].pc # "idle"})

\* lines 103-107: thread i enters the method (taking the lock first when the
\* callers synchronize), trims the original and branches
TokenBegin(i, cp, original) ==
    /\ pc = "idle"
    /\ threads[i].pc = "idle"
    /\ CallsBegun < MaxCalls
    /\ mutex.sync => mutex.holder = 0
    /\ mutex' = IF mutex.sync THEN [mutex EXCEPT !.holder = i] ELSE mutex
    /\ With(Strip(StrOf(original)), LAMBDA original_norm :
            threads' = [threads EXCEPT ![i] =
                [pc |-> IF original_norm = <<>> THEN "done"
                        ELSE IF reversible THEN "lookup" ELSE "read",
                 category |-> cp.category, prefix |-> cp.prefix, original |-> original,
                 original_norm |-> original_norm, n |-> 0,
                 token |-> IF original_norm = <<>>
                           THEN PyStr(PrefixChars[cp.prefix] \o <<"_">> \o StrUNKNOWN)
                           ELSE PyNone]])
    /\ UNCHANGED <<config, objects, mapping, counters, file, pc, data, detected, out, writes, entry,
                   ret, ops, calls>>

\* line 116, right-hand side:  self._counters.get(prefix, 0)
CounterRead(i) ==
    /\ threads[i].pc = "read"
    /\ threads' = [threads EXCEPT ![i].pc = "write",
                                  ![i].n = IF threads[i].prefix \in DOMAIN counters
                                           THEN counters[threads[i].prefix] ELSE 0]
    /\ UNCHANGED <<config, objects, mapping, counters, file, pc, data, detected, out, writes, entry,
                   ret, ops, calls, mutex>>

\* mutant: the value read is stored back without the increment
CounterWrite_NoIncrement(i) ==
    /\ threads[i].pc = "write"
    /\ counters' = (threads[i].prefix :> threads[i].n) @@ counters
    /\ threads' = [threads EXCEPT ![i].pc = "format"]
    /\ UNCHANGED <<config, objects, mapping, file, pc, data, detected, out, writes, entry,
                   ret, ops, calls, mutex>>

\* line 116, the store:  self._counters[prefix] = <value read> + 1
CounterWrite(i) ==
    /\ threads[i].pc = "write"
    /\ counters' = (threads[i].prefix :> threads[i].n + 1) @@ counters
    /\ threads' = [threads EXCEPT ![i].pc = "format"]
    /\ UNCHANGED <<config, objects, mapping, file, pc, data, detected, out, writes, entry,
                   ret, ops, calls, mutex>>

\* line 117:  f"{prefix}_{self._counters[prefix]}"  reads the counter again
TokenFormat(i) ==
    /\ threads[i].pc = "format"
    /\ threads' = [threads EXCEPT ![i].pc = "done",
                                  ![i].token = PyStr(PrefixChars[threads[i].prefix] \o <<"_">>
                                                     \o IntToStr(counters[threads[i].prefix]))]
    /\ UNCHANGED <<config, objects, mapping, counters, file, pc, data, detected, out, writes, entry,
                   ret, ops, calls, mutex>>

\* line 108:  original_norm in self._mapping.get(category, {})
MappingLookup(i) ==
    /\ threads[i].pc = "lookup"
    /\ threads' = [threads EXCEPT ![i].pc =
                      IF threads[i].original_norm \in DOMAIN mapping[threads[i].category]
                      THEN "fetch" ELSE "store"]
    /\ UNCHANGED <<config, objects, mapping, counters, file, pc, data, detected, out, writes, entry,
                   ret, ops, calls, mutex>>

\* line 109:  return self._mapping[category][original_norm]
MappingFetch(i) ==
    /\ threads[i].pc = "fetch"
    /\ threads' = [threads EXCEPT ![i].pc = "done",
                                  ![i].token = mapping[threads[i].category][threads[i].original_norm]]
    /\ UNCHANGED <<config, objects, mapping, counters, file, pc, data, detected, out, writes, entry,
                   ret, ops, calls, mutex>>

\* mutant: the stored token is numbered by its place in the table
MappingStore_Sequential(i) ==
    /\ threads[i].pc = "store"
    /\ With(PyStr(PrefixChars[threads[i].prefix] \o <<"_">>
                  \o IntToStr(Cardinality(DOMAIN mapping[threads[i].category]) + 1)),
            LAMBDA token :
            /\ mapping' = [mapping EXCEPT ![threads[i].category] =
                              (threads[i].original_norm :> token) @@ @]
            /\ threads' = [threads EXCEPT ![i].pc = "done", ![i].token = token])
    /\ UNCHANGED <<config, objects, counters, file, pc, data, detected, out, writes, entry,
                   ret, ops, calls, mutex>>

\* lines 111-112: the token is derived from the hash and stored
MappingStore(i) ==
    /\ threads[i].pc = "store"
    /\ With(HStr(PrefixChars[threads[i].prefix] \o <<"_">>,
                 _hash_text(threads[i].original_norm, salt), 12, <<>>), LAMBDA token :
            /\ mapping' = [mapping EXCEPT ![threads[i].category] =
                              (threads[i].original_norm :> token) @@ @]
            /\ threads' = [threads EXCEPT ![i].pc = "done", ![i].token = token])
    /\ UNCHANGED <<config, objects, counters, file, pc, data, detected, out, writes, entry,
                   ret, ops, calls, mutex>>

\* the method returns to thread i's caller, which releases the lock it took
TokenReturn(i) ==
    /\ threads[i].pc = "done"
    /\ calls' = Append(calls, [category |-> threads[i].category, prefix |-> threads[i].prefix,
                               original |-> threads[i].original, token |-> threads[i].token,
                               thread |-> i])
    /\ threads' = [threads EXCEPT ![i] = IdleThread]
    /\ mutex' = [mutex EXCEPT !.holder = 0]
    /\ UNCHANGED <<config, objects, mapping, counters, file, pc, data, detected, out, writes, entry,
                   ret, ops>>

NextThreads ==
    \E i \in Threads :
        \/ \E cp \in ThreadPairs, original \in ThreadOriginals : TokenBegin(i, cp, original)
        \/ CounterRead(i)
        \/ CounterWrite(i)
        \/ TokenFormat(i)
        \/ MappingLookup(i)
        \/ MappingFetch(i)
        \/ MappingStore(i)
        \/ TokenReturn(i)

SpecThreads == InitThreads /\ [][NextThreads]_vars

\* project sections passed to anonymize_projects: one entry with the
\* technologies as a pipe-delimited string, as a list, or as neither
TechValues ==
    {PyStr(<<" ", "P", "y", " ", "|", " ", "p", "y", "|", "|", "N", "o", "d", "e">>),
     PyList(<<PyStr(<<" ", "P", "y", " ">>), PyStr(<<" ", "p", "y">>), PyStr(<<>>),
              PyStr(<<"N", "o", "d", "e">>)>>),
     PyStr(<<"R", "e", "a", "c", "t", "|", "N", "o", "d", "e">>),
     PyList(<<PyStr(<<"n", "o", "d", "e">>), PyInt(5), PyStr(<<"N", "O", "D", "E", " ">>)>>),
     PyStr(<<" ", "|", " ">>),
     PyStr(<<>>),
     PyList(<<>>),
     PyInt(5),
     PyNone}

\* titles with a #<digits> run at the end, in the middle, or nowhere
TitleValues ==
    {PyStr(<<"c", "h", "a", "t", " ", "#", "7", "6">>),
     PyStr(<<"c", "h", "a", "t", " ", "#", "1", "2">>),
     PyStr(<<"c", "h", "a", "t">>),
     PyStr(<<"a", " ", "#", "1", " ", "b">>),
     PyStr(<<"a", " ", "#", "2", " ", "b">>),
     PyStr(<<"a", " ", "b", " ", "c", " ", "d", " ", "e", " ", "f", "#", "9">>),
     PyStr(<<"a", " ", "b", " ", "c", " ", "d", " ", "e", " ", "g">>),
     PyStr(<<"c", "#", "7", "#">>),
     PyStr(<<"#", "5">>),
     PyInt(7)}

\* n times the character c
Repeat(c, n) == [i \in 1..n |-> c]

\* descriptions around the length limit, with and without an email address
\* or a phone number
DescriptionValues ==
    {PyStr(Repeat("~", 600)),
     PyStr(Repeat("~", 500)),
     PyStr(Repeat("~", 501)),
     PyStr(Repeat("~", 493) \o <<"1", "2", "3", "4", "5", "6", "7", "8", "9", "0", "1", "2", "3">>),
     PyStr(Repeat("~", 494) \o <<" ", "a", "@", "b", ".", "c">>),
     PyStr(Repeat("~", 499) \o <<" ", "+", "1", " ", "(", "2", "3", ")", " ", "4", "5", "6", "-", "7", "8", "9", "0">>),
     PyStr(<<"t", "o", " ", "u", "1", "2", "3", "4", "5", "6", "7", "@", "x", ".", "y", " ", "o", "r", " ", "5", "5", "5", " ", "1", "2", "3", "4">>),
     PyStr(<<"m", "a", "i", "l", " ", "a", "@", "b", ".", "c">>),
     PyStr(<<>>),
     PyInt(12345678),
     PyNone}

\* certification sections: entries with and without issuer, id, name and
\* other keys, and one entry that is no mapping
CertEntryA ==
    PyDict([name |-> PyStr(<<"a", "w", "s", " ", "#", "1", "2">>),
            issuer |-> PyStr(<<"a", "m", "z">>),
            id |-> PyStr(<<"9", "9">>),
            year |-> PyInt(2020)])

CertEntryB ==
    PyDict([name |-> PyStr(<<"g", "c", "p", " ", "1", "2", "3", "4", "5", "6", "7">>),
            year |-> PyInt(2021),
            tags |-> PyList(<<PyStr(<<"#", "1">>)>>)])

CertEntryC == PyDict([issuer |-> PyNone, level |-> PyStr(<<"i", "d">>)])

CertificationValues ==
    {PyDict([entries |-> PyList(<<CertEntryA>>)]),
     PyDict([entries |-> PyList(<<CertEntryA, CertEntryB>>)]),
     PyDict([entries |-> PyList(<<CertEntryB, CertEntryA>>)]),
     PyDict([entries |-> PyList(<<CertEntryC, CertEntryC, CertEntryB>>)]),
     PyDict([entries |-> PyList(<<>>), count |-> PyInt(3)]),
     PyDict([entries |-> PyList(<<CertEntryA, PyStr(<<"x">>)>>)]),
     RecBase.v["certifications"]}

ProjectsWith(key, value) == PyDict([entries |-> PyList(<<PyDict((key :> value))>>)])

\* (section, value, fields_to_mask) arguments of the calls on entry sections
EntryInputs ==
    {<<"projects", ProjectsWith("technologies", t), PyNone>> : t \in TechValues}
    \cup {<<"projects", ProjectsWith("title", t), PyNone>> : t \in TitleValues}
    \cup {<<"projects", ProjectsWith("description", d), PyNone>> : d \in DescriptionValues}
    \cup {<<"certifications", c, PyNone>> : c \in CertificationValues}
    \cup {<<"projects", RecBase.v["projects"], PyNone>>,
          <<"projects", PyDict([entries |-> PyList(<<>>)]), PyNone>>}

NextEntries == \E in \in EntryInputs : SectionCall(in[1], in[2], in[3])

\* the anonymizers of the sections with entries, called one at a time
SpecEntries == Init /\ [][NextEntries]_vars

(***************************************************************************)
(* The calls on objects: dicts and lists are cells of the heap, named by   *)
(* their address; a str, an int or None is the value itself.               *)
(***************************************************************************)
Ref(a) == [t |-> "ref", a |-> a]

IsContainer(v) == v.t \in {"dict", "list"}

\* the keys of a dict, the indexes of a list (written as strings)
Keys(v) == IF v.t = "dict" THEN DOMAIN v.v ELSE {ToString(i) : i \in DOMAIN v.v}

Child(v, k) ==
    IF v.t = "dict" THEN v.v[k] ELSE v.v[CHOOSE i \in DOMAIN v.v : ToString(i) = k]

\* the paths from the value v to the dicts and lists in it, v included
RECURSIVE Paths(_)
Paths(v) ==
    IF ~IsContainer(v) THEN {}
    ELSE {<<>>} \cup UNION {{<<k>> \o q : q \in Paths(Child(v, k))} : k \in Keys(v)}

RECURSIVE Sub(_, _)
Sub(v, q) == IF q = <<>> THEN v ELSE Sub(Child(v, Head(q)), Tail(q))

\* what a dict or list holds for the item x at path q of the n-th built value
Named(n, q, x) == IF IsContainer(x) THEN Ref(<<n, q>>) ELSE x

Cell(n, q, v) ==
    IF v.t = "dict"
    THEN [t |-> "dict", v |-> [k \in DOMAIN v.v |-> Named(n, Append(q, k), v.v[k])]]
    ELSE [t |-> "list", v |-> [i \in DOMAIN v.v |-> Named(n, Append(q, ToString(i)), v.v[i])]]

\* the value v is built as new objects: the heap with them, and what names
\* it.  The address of a new object is the number of the build and the path.
HAlloc(h, v) ==
    IF ~IsContainer(v) THEN [h |-> h, r |-> v]
    ELSE With(Cardinality(DOMAIN h) + 1, LAMBDA n :
              [h |-> [a \in {<<n, q>> : q \in Paths(v)} |-> Cell(n, a[2], Sub(v, a[2]))] @@ h,
               r |-> Ref(<<n, <<>>>>)])

\* the value of what x names
RECURSIVE HValue(_, _)
HValue(h, x) ==
    IF x.t # "ref" THEN x
    ELSE IF h[x.a].t = "dict"
    THEN PyDict([k \in DOMAIN h[x.a].v |-> HValue(h, h[x.a].v[k])])
    ELSE PyList([i \in DOMAIN h[x.a].v |-> HValue(h, h[x.a].v[i])])

\* the addresses of the dicts and lists reached from x
RECURSIVE HReach(_, _)
HReach(h, x) ==
    IF x.t # "ref" THEN {}
    ELSE {x.a} \cup UNION {HReach(h, h[x.a].v[k]) : k \in DOMAIN h[x.a].v}

\* mutant: the object itself is used in place of a copy
deepcopy_Alias(h, x) == [h |-> h, r |-> x]

\* copy.deepcopy(x)
deepcopy(h, x) == HAlloc(h, HValue(h, x))

\* d[k] = x  on the dict at address a
HSetItem(h, a, k, x) == [h EXCEPT ![a].v = (k :> x) @@ @]

\* the dict at address a keeps the keys in keys only  (d.pop(k, None))
HKeep(h, a, keys) == [h EXCEPT ![a].v = [k \in DOMAIN @ \cap keys |-> @[k]]]

\* the writes of an anonymizer on its copy out (address a) that leave it with
\* the value d: a key whose value differs gets a newly built value
RECURSIVE HUpdateKeys(_, _, _, _)
HUpdateKeys(h, a, d, keys) ==
    IF keys = {} THEN h
    ELSE With(CHOOSE k \in keys : TRUE, LAMBDA k :
         IF k \in DOMAIN h[a].v /\ HValue(h, h[a].v[k]) = d[k]
         THEN HUpdateKeys(h, a, d, keys \ {k})
         ELSE With(HAlloc(h, d[k]), LAMBDA c :
                   HUpdateKeys(HSetItem(c.h, a, k, c.r), a, d, keys \ {k})))

HUpdate(h, a, d) == HKeep(HUpdateKeys(h, a, d, DOMAIN d), a, DOMAIN d)

\* the sections in the order anonymize_record takes them
SectionOrder ==
    <<"personal_info", "education", "experience", "projects", "certifications", "skills">>

\* one section anonymizer called on what field names: a dict is copied and
\* the copy written to, anything else (None, a str that is parsed, a value
\* that is no mapping) gives a new object
HSection(h, self, fields, section, field) ==
    With(IF section = "personal_info"
         THEN anonymize_personal_info(self, HValue(h, field), FieldsToMask(fields))
         ELSE SectionAnonymizer(section, self, HValue(h, field), PyNone), LAMBDA res :
    IF res.exc THEN [h |-> h, self |-> res.self, exc |-> TRUE, r |-> PyNone]
    ELSE With(IF field.t = "ref" /\ h[field.a].t = "dict"
              THEN With(deepcopy(h, field), LAMBDA copy :
                        [h |-> HUpdate(copy.h, copy.r.a, res.val.v), r |-> copy.r])
              ELSE HAlloc(h, res.val), LAMBDA copy :
              [h |-> copy.h, self |-> res.self, exc |-> FALSE, r |-> copy.r]))

\* rec[section] = self.anonymize_<section>(rec.get(section))  for the
\* sections from the k-th on; rec is at address a
RECURSIVE HSections(_, _, _, _, _)
HSections(h, self, a, fields, k) ==
    IF k > Len(SectionOrder) THEN [h |-> h, self |-> self, exc |-> FALSE]
    ELSE With(HSection(h, self, fields, SectionOrder[k],
                       IF SectionOrder[k] \in DOMAIN h[a].v THEN h[a].v[SectionOrder[k]]
                       ELSE PyNone), LAMBDA o :
              IF o.exc THEN [h |-> o.h, self |-> o.self, exc |-> TRUE]
              ELSE HSections(HSetItem(o.h, a, SectionOrder[k], o.r), o.self, a, fields, k + 1))

\* anonymize_record on the dict that record names
HRecord(h, self, record, detected_fields) ==
    With(deepcopy(h, record), LAMBDA rec :
    With(HSections(rec.h, self, rec.r.a,
                   IF Truthy(detected_fields)
                   THEN [i \in 1..Len(detected_fields.v) |-> detected_fields.v[i].v]
                   ELSE default_fields, 1), LAMBDA s :
    IF s.exc THEN [h |-> s.h, self |-> s.self, exc |-> TRUE, r |-> PyNone]
    ELSE [h |-> IF self.preserve_numeric_features THEN s.h
                ELSE HKeep(s.h, rec.r.a,
                           DOMAIN s.h[rec.r.a].v \ {"raw_score", "bias_score", "bias_label"}),
          self |-> s.self, exc |-> FALSE, r |-> rec.r]))

\* for rec in data: out.append(self.anonymize_record(rec, ...))  from the
\* i-th record on; data and out are at addresses d and o
RECURSIVE HDatasetLoop(_, _, _, _, _, _)
HDatasetLoop(h, self, d, o, detected_fields, i) ==
    IF i > Len(h[d].v) THEN [h |-> h, self |-> self, exc |-> FALSE, r |-> Ref(o)]
    ELSE With(HRecord(h, self, h[d].v[i], detected_fields), LAMBDA rec :
              IF rec.exc THEN rec
              ELSE HDatasetLoop([rec.h EXCEPT ![o].v = Append(@, rec.r)], rec.self, d, o,
                                detected_fields, i + 1))

\* anonymize_dataset up to the save:  out = []  and the loop
HDataset(h, self, batch, detected_fields) ==
    With(HAlloc(h, PyList(<<>>)), LAMBDA result :
         HDatasetLoop(result.h, self, batch.a, result.r.a, detected_fields, 1))

\* (record, detected_fields) and (data, detected_fields) arguments of the
\* calls on objects
HeapRecInputs ==
    ({RecBase, RecPersonalLit, RecEducationEntriesStr, DataGood, DataTwo, DataBad} \X {PyNone})
    \cup {<<RecBase, DfName>>}

HeapDataInputs ==
    {<<>>, <<DataGood>>, <<DataGood, DataTwo>>, <<DataTwo, DataBad>>, <<RecBase>>} \X {PyNone}

\* a call  self.anonymize_record(record, detected_fields)  on a record the
\* caller has just built
HeapRecord(record, detected_fields) ==
    /\ pc = "idle"
    /\ ops < MaxOps
    /\ ops' = ops + 1
    /\ With(HAlloc(heap, record), LAMBDA arg :
       With(HRecord(arg.h, Self, arg.r, detected_fields), LAMBDA r :
            /\ heap' = r.h
            /\ mapping' = r.self.mapping
            /\ counters' = r.self.counters
            /\ passed' = Append(passed, [r |-> arg.r, value |-> record])
            /\ returned' = IF r.exc THEN returned ELSE Append(returned, r.r)
            /\ ret' = [op |-> "anonymize_record", exc |-> r.exc, arg |-> record,
                       df |-> detected_fields,
                       val |-> IF r.exc THEN PyNone ELSE HValue(r.h, r.r)]))
    /\ UNCHANGED <<config, threads, mutex, file, pc, data, detected, out, writes, entry, calls>>

\* a call  self.anonymize_dataset(batch, detected_fields)  on a list the
\* caller has just built; save tells how the write of the mapping file goes
HeapDataset(batch, detected_fields, save) ==
    /\ pc = "idle"
    /\ ops < MaxOps
    /\ ops' = ops + 1
    /\ With(HAlloc(heap, PyList(batch)), LAMBDA arg :
       With(HDataset(arg.h, Self, arg.r, detected_fields), LAMBDA r :
       With(r.exc \/ (reversible /\ save # "written"), LAMBDA failed :
            /\ heap' = r.h
            /\ mapping' = r.self.mapping
            /\ counters' = r.self.counters
            /\ file' = IF r.exc \/ ~reversible \/ save = "untouched" THEN file
                       ELSE IF save = "written" THEN FileJson(r.self.mapping)
                       ELSE FilePartial
            /\ writes' = IF ~r.exc /\ reversible /\ save = "written" THEN 1 ELSE 0
            /\ passed' = Append(passed, [r |-> arg.r, value |-> PyList(batch)])
            /\ returned' = IF failed THEN returned ELSE Append(returned, r.r)
            /\ ret' = [op |-> "anonymize_dataset", exc |-> failed, arg |-> PyList(batch),
                       df |-> detected_fields,
                       val |-> IF failed THEN PyNone ELSE HValue(r.h, r.r)]
            /\ out' = IF r.exc THEN <<>> ELSE HValue(r.h, r.r).v)))
    /\ data' = batch
    /\ detected' = detected_fields
    /\ entry' = [mapping |-> mapping, counters |-> counters]
    /\ UNCHANGED <<config, threads, mutex, pc, calls>>

NextHeap ==
    \/ \E in \in HeapRecInputs : HeapRecord(in[1], in[2])
    \/ \E in \in HeapDataInputs, save \in {"written", "untouched", "partial"} :
           HeapDataset(in[1], in[2], save)

\* records and batches through the public interface, as objects
SpecHeap == Init /\ [][NextHeap]_vars

(***************************************************************************)
(* Properties.                                                             *)
(***************************************************************************)
EntrySections == {"education", "experience", "projects", "certifications"}

\* the last finished call was anonymize_record and it returned a record
RecordReturned == ret.op = "anonymize_record" /\ ~ret.exc

\* personal_info of the record passed to the last call, after safe_parse
PersonalIn == Normalized(DictGet(ret.arg.v, "personal_info", PyNone))

\* personal_info.<field>
PersonalPath(k) == StrPersonalInfo \o <<".">> \o FieldChars[k]

\* the paths of a detected_fields list
Whitelist(df) == {df.v[i].v : i \in DOMAIN df.v}

\* C1: whatever whitelist is passed to anonymize_record, a personal_info
\* sub-field whose personal_info.<field> path is not in the whitelist keeps its
\* input value (also with an empty whitelist or one without personal_info
\* paths), and no sub-field absent from the input is added.
C1_OnlyWhitelistedMasked ==
    (RecordReturned /\ ret.df # PyNone /\ PersonalIn.t = "dict") =>
        /\ DOMAIN ret.val.v["personal_info"].v = DOMAIN PersonalIn.v
        /\ \A k \in DOMAIN PersonalIn.v \cap Range(AllPersonalFields) :
              PersonalPath(k) \notin Whitelist(ret.df) =>
                  ret.val.v["personal_info"].v[k] = PersonalIn.v[k]

\* C2: with numeric preservation enabled the record returned by
\* anonymize_record has the top-level keys of the input and, in every section
\* that is a mapping, the keys of that section of the input.
C2_SameShape ==
    (RecordReturned /\ preserve_numeric_features) =>
        /\ DOMAIN ret.val.v = DOMAIN ret.arg.v
        /\ \A k \in Sections \cap DOMAIN ret.arg.v :
              ret.arg.v[k].t = "dict" =>
                  /\ ret.val.v[k].t = "dict"
                  /\ DOMAIN ret.val.v[k].v = DOMAIN ret.arg.v[k].v

\* a section value that is not a mapping of well-formed entries
Malformed(field) ==
    LET sec == Normalized(field) IN
    \/ sec.t # "dict"
    \/ /\ "entries" \in DOMAIN sec.v
       /\ \/ sec.v["entries"].t # "list"
          \/ \E i \in DOMAIN sec.v["entries"].v : sec.v["entries"].v[i].t # "dict"

\* C3: anonymize_record never raises; a malformed section (unparseable
\* string, non-mapping, 'entries' that is not a sequence, entries that are not
\* mappings) comes back as an empty section.
C3_NeverRaises ==
    ret.op = "anonymize_record" =>
        /\ ~ret.exc
        /\ \A k \in EntrySections \cap DOMAIN ret.arg.v :
              Malformed(ret.arg.v[k]) => ret.val.v[k] = PyDict(EmptyDict)

\* normalized original of the i-th logged tokenizer call
Norm(i) == Strip(StrOf(calls[i].original))

\* C4: in reversible mode two Entity Tokenizer calls with the same category and
\* the same trimmed non-empty original return the same token, whatever calls
\* were made in between.
C4_SameTokenReversible ==
    reversible =>
        \A i, j \in 1..Len(calls) :
            (calls[i].category = calls[j].category /\ Norm(i) = Norm(j) /\ Norm(i) # <<>>)
                => calls[i].token = calls[j].token

\* two calls that differ only by surrounding whitespace, another call between them
C4_Witness ==
    /\ reversible
    /\ \E i, j \in 1..Len(calls) :
          /\ i + 1 < j
          /\ calls[i].category = calls[j].category
          /\ calls[i + 1].category # calls[i].category
          /\ calls[i].original # calls[j].original
          /\ Norm(i) = Norm(j) /\ Norm(i) # <<>>
          /\ calls[i].token = calls[j].token

\* C5: the Mapping Table only grows: no step removes an entry or changes its
\* token, and its categories are always the fixed eight.
C5_MappingOnlyGrows ==
    /\ [](DOMAIN mapping = Categories)
    /\ [][\A c \in Categories : \A o \in DOMAIN mapping[c] :
              o \in DOMAIN mapping'[c] /\ mapping'[c][o] = mapping[c][o]]_vars

\* a second call added to the entries of the first, and the table was saved
C5_Witness ==
    /\ reversible
    /\ ops = 2
    /\ Cardinality(DOMAIN mapping["university"]) = 2
    /\ Cardinality(DOMAIN entry.mapping["university"]) = 1
    /\ file = FileJson(mapping)

\* number of the i-th logged call among the calls with its prefix whose
\* original passes Counted
Ordinal(i, Counted(_)) ==
    Cardinality({j \in 1..i : calls[j].prefix = calls[i].prefix /\ Counted(j)})

NonEmptyOriginal(i) == StrOf(calls[i].original) # <<>>

NonBlankOriginal(i) == Norm(i) # <<>>

CounterToken(prefix, k) == PyStr(PrefixChars[prefix] \o <<"_">> \o IntToStr(k))

\* C6 as stated: in non-reversible mode two calls with the same prefix and the
\* same non-empty original return different tokens, the k-th token of a prefix
\* being <prefix>_k.
C6_DistinctForNonEmpty ==
    ~reversible =>
        /\ \A i, j \in 1..Len(calls) :
              (i < j /\ calls[i].prefix = calls[j].prefix
                     /\ calls[i].original = calls[j].original /\ NonEmptyOriginal(i))
                  => calls[i].token # calls[j].token
        /\ \A i \in 1..Len(calls) :
              NonEmptyOriginal(i) =>
                  calls[i].token = CounterToken(calls[i].prefix, Ordinal(i, NonEmptyOriginal))

\* C6 amended: in non-reversible mode the calls of one prefix whose original
\* is non-empty after trimming return pairwise different tokens, the k-th of
\* them <prefix>_k.
C6_DistinctForNonBlank ==
    ~reversible =>
        /\ \A i, j \in 1..Len(calls) :
              (i < j /\ calls[i].prefix = calls[j].prefix
                     /\ NonBlankOriginal(i) /\ NonBlankOriginal(j))
                  => calls[i].token # calls[j].token
        /\ \A i \in 1..Len(calls) :
              NonBlankOriginal(i) =>
                  calls[i].token = CounterToken(calls[i].prefix, Ordinal(i, NonBlankOriginal))

\* the same university tokenized twice, with two different tokens
C6_Witness ==
    /\ ~reversible
    /\ \E i, j \in 1..Len(calls) :
          /\ i < j
          /\ calls[i].prefix = "UNIV" /\ calls[j].prefix = "UNIV"
          /\ calls[i].original = calls[j].original
          /\ NonBlankOriginal(i)
          /\ calls[i].token = CounterToken("UNIV", 1)
          /\ calls[j].token = CounterToken("UNIV", 2)

HashStable == {"_anonymize_name", "_mask_email", "_anonymize_location"}

\* a non-reversible instance on which nothing has been called yet
Fresh(slt, idp) == NewAnonymizer(FALSE, TRUE, slt, idp)

\* C7 as stated: in non-reversible mode the masked name, email and location
\* depend on the salt and the input only: the instance gives what any fresh
\* instance with the same salt gives, and gives it again on a second call.
C7_SaltAndInputOnly ==
    (~reversible /\ ret.op \in HashStable) =>
        /\ \A idp \in IdPrefixes : ret.val = Mask(ret.op, Fresh(salt, idp), ret.arg).val
        /\ Mask(ret.op, Self, ret.arg).val = ret.val

\* C7 amended: in non-reversible mode the masked name depends on the salt, the
\* id_prefix and the input only, the masked email and location on the salt and
\* the input only; none depends on the counters or the mapping table.
C7_HashStable ==
    ~reversible =>
        /\ \A in \in MaskInputs : \A idp \in IdPrefixes :
              (in[1] \in HashStable /\ (in[1] = "_anonymize_name" => idp = id_prefix)) =>
                  LET r == Mask(in[1], Self, in[2]) IN
                  /\ r.val = Mask(in[1], Fresh(salt, idp), in[2]).val
                  /\ Mask(in[1], r.self, in[2]).val = r.val
        /\ \A idp \in IdPrefixes :
              (ret.op \in HashStable /\ (ret.op = "_anonymize_name" => idp = id_prefix)) =>
                  ret.val = Mask(ret.op, Fresh(salt, idp), ret.arg).val

\* a name masked after a record has advanced the counters
C7_Witness ==
    /\ ~reversible
    /\ ret.op = "_anonymize_name"
    /\ ret.val.t = "hstr"
    /\ counters["UNIV"] >= 1

\* the last finished call was anonymize_dataset and nothing runs now
DatasetOver == pc = "idle" /\ ret.op = "anonymize_dataset"

\* C8: the mapping file is written once per batch, in reversible mode only and
\* after the last record: never in non-reversible mode, never by
\* anonymize_record alone, never when a record of the batch raises.
C8_SavedOncePerBatch ==
    /\ [](~reversible => file = FileAbsent /\ writes = 0)
    /\ []((DatasetOver /\ ~ret.exc) => writes = IF reversible THEN 1 ELSE 0)
    /\ []((DatasetOver /\ ret.exc /\ Len(out) < Len(data)) => writes = 0)
    /\ [][(file' # file \/ writes' > writes) =>
              (reversible /\ pc = "save" /\ Len(out) = Len(data) /\ writes' <= 1)]_vars
    /\ [][(pc = "idle" /\ pc' = "idle") => (file' = file /\ writes' = writes)]_vars

\* a reversible batch of two records returned and the file holds the table
C8_Witness ==
    /\ reversible
    /\ DatasetOver /\ ~ret.exc
    /\ Len(data) = 2 /\ Len(out) = 2
    /\ writes = 1
    /\ mapping["university"] # EmptyDict
    /\ file = FileJson(mapping)

\* C9: in reversible mode a failing mapping-file write raises from
\* anonymize_dataset, is not attempted again, happens only after every record
\* of the batch was transformed, and leaves the Mapping Table and the computed
\* output records as they were.
C9_SaveFailure ==
    /\ [](pc = "save" => (reversible /\ Len(out) = Len(data)))
    /\ [][pc = "save" => pc' = "idle"]_vars
    /\ [][(pc = "save" /\ ret'.exc) =>
              /\ ret'.op = "anonymize_dataset"
              /\ mapping' = mapping /\ counters' = counters
              /\ out' = out /\ data' = data
              /\ writes' = writes]_vars

\* a batch of two records whose mapping-file write failed
C9_Witness ==
    /\ reversible
    /\ DatasetOver /\ ret.exc
    /\ Len(data) = 2 /\ Len(out) = 2
    /\ writes = 0
    /\ mapping["university"] # EmptyDict

\* anonymize_record applied to the records of a batch one after the other
RECURSIVE Replay(_, _, _, _)
Replay(self, records, detected_fields, done) ==
    IF records = <<>> THEN Return(self, PyList(done))
    ELSE LET r == anonymize_record(self, Head(records), detected_fields)
         IN  IF r.exc THEN r
             ELSE Replay(r.self, Tail(records), detected_fields, Append(done, r.val))

\* the instance as it was when anonymize_dataset was entered
SelfAtEntry == [Self EXCEPT !.mapping = entry.mapping, !.counters = entry.counters]

\* C10: anonymize_dataset returns as many records as it was passed, the i-th
\* being anonymize_record of the i-th input, the records taken in input order.
C10_InputOrder ==
    (DatasetOver /\ ~ret.exc) =>
        LET r == Replay(SelfAtEntry, ret.arg.v, ret.df, <<>>) IN
        /\ Len(ret.val.v) = Len(ret.arg.v)
        /\ ~r.exc
        /\ ret.val = r.val
        /\ mapping = r.self.mapping
        /\ counters = r.self.counters

\* a non-reversible batch of two different records, counter tokens in order
C10_Witness ==
    /\ ~reversible
    /\ DatasetOver /\ ~ret.exc
    /\ ret.arg.v = <<DataGood, DataTwo>>
    /\ ret.val.v[1].v["education"].v["entries"].v[1].v["university"]
           = CounterToken("UNIV", entry.counters["UNIV"] + 1)
    /\ ret.val.v[2].v["education"].v["entries"].v[2].v["university"]
           = CounterToken("UNIV", entry.counters["UNIV"] + 3)

\* the scoring keys and the numeric keys of an education entry
ScoreKeys == {"raw_score", "bias_score", "bias_label"}

NumericEntryKeys == {"grade", "year"}

\* the education entries of a record (<<>> when there are none)
EducationEntries(rec) ==
    LET sec == Normalized(DictGet(rec.v, "education", PyNone)) IN
    IF sec.t = "dict" /\ "entries" \in DOMAIN sec.v
    THEN Iter(sec.v["entries"]).items
    ELSE <<>>

\* an entry without its numeric keys
WithoutNumericKeys(e) ==
    IF e.t = "dict" THEN PyDict([k \in DOMAIN e.v \ NumericEntryKeys |-> e.v[k]]) ELSE e

\* a returned record without the keys the flag is about
WithoutNumeric(rec) ==
    [k \in DOMAIN rec.v \ ScoreKeys |->
        IF k = "education"
        THEN [i \in DOMAIN EducationEntries(rec) |-> WithoutNumericKeys(EducationEntries(rec)[i])]
        ELSE rec.v[k]]

\* this step is a call of anonymize_record that returned a record
RecordStep == pc = "idle" /\ ops' = ops + 1 /\ ret'.op = "anonymize_record" /\ ~ret'.exc

\* C11: with preserve_numeric_features the returned record has raw_score,
\* bias_score, bias_label and every education entry's grade and year as in the
\* input; without it the record has none of the three scoring keys and no
\* education entry has grade or year; every other key of the record is the
\* same as what the call returns with the flag flipped.
C11_NumericFlag ==
    [][RecordStep =>
        LET inp == ret'.arg
            res == ret'.val
            flipped == anonymize_record(
                           [Self EXCEPT !.preserve_numeric_features = ~@], inp, ret'.df)
        IN  /\ preserve_numeric_features =>
                  /\ \A k \in ScoreKeys \cap DOMAIN inp.v : res.v[k] = inp.v[k]
                  /\ Len(EducationEntries(res)) = Len(EducationEntries(inp))
                  /\ \A i \in DOMAIN EducationEntries(inp) :
                        LET e == EducationEntries(inp)[i] IN
                        e.t = "dict" =>
                            \A k \in NumericEntryKeys \cap DOMAIN e.v :
                                /\ k \in DOMAIN EducationEntries(res)[i].v
                                /\ EducationEntries(res)[i].v[k] = e.v[k]
            /\ ~preserve_numeric_features =>
                  /\ ScoreKeys \cap DOMAIN res.v = {}
                  /\ \A i \in DOMAIN EducationEntries(res) :
                        NumericEntryKeys \cap DOMAIN EducationEntries(res)[i].v = {}
            /\ ~flipped.exc => WithoutNumeric(res) = WithoutNumeric(flipped.val)]_vars

\* a record with scores, grade and year went through without preservation
C11_Witness ==
    /\ ~preserve_numeric_features
    /\ RecordReturned
    /\ ret.arg = RecBase
    /\ Len(EducationEntries(ret.val)) = 2
    /\ "degree" \in DOMAIN EducationEntries(ret.val)[1].v

\* the sections and the Mapping Table categories the whitelist has no say in
UnlistedSections == Sections \ {"personal_info"}

UnlistedCategories == {"university", "company", "technology", "project_title"}

IntendedAge(a) ==
        CASE a.t = "int" -> [ok |-> TRUE, v |-> a.v]
          [] a = PyStr(<<"4", "6">>) -> [ok |-> TRUE, v |-> 46]
          [] a = PyStr(<<"3", "0">>) -> [ok |-> TRUE, v |-> 30]
          [] a = PyStr(<<" ", "7", " ">>) -> [ok |-> TRUE, v |-> 7]
          [] a = PyStr(<<"-", "3">>) -> [ok |-> TRUE, v |-> 0 - 3]
          [] a = PyStr(<<"+", "4", "6">>) -> [ok |-> TRUE, v |-> 46]
          [] a = PyStr(<<"0", "7">>) -> [ok |-> TRUE, v |-> 7]
          [] a = PyStr(<<"1", "_", "0">>) -> [ok |-> TRUE, v |-> 10]
          [] OTHER -> [ok |-> FALSE, v |-> 0]

\* the bucket of an integer age
BucketOf(a) ==
    CASE a <= 25 -> Str18_25
      [] a \in 26..35 -> Str26_35
      [] a \in 36..45 -> Str36_45
      [] a >= 46 -> Str46Plus

\* the last call was anonymize_personal_info on a mapping with an age that
\* the fields to mask include
AgeMasked ==
    /\ ret.op = "anonymize_personal_info"
    /\ Normalized(ret.arg).t = "dict"
    /\ "age" \in DOMAIN Normalized(ret.arg).v
    /\ Truthy(ret.df) => FtmAge.v[1] \in Range(ret.df.v)

\* C13: when age is present and whitelisted, anonymize_personal_info returns
\* without an exception in both modes, and the age it returns is '18-25' for
\* an integer-like age <= 25 (0 and negatives included), '26-35' for 26..35,
\* '36-45' for 36..45, '46+' for >= 46, and 'UNKNOWN' for a value int() rejects.
C13_AgeBuckets ==
    AgeMasked =>
        LET a == IntendedAge(Normalized(ret.arg).v["age"]) IN
        /\ ~ret.exc
        /\ ret.val.v["age"] = PyStr(IF a.ok THEN BucketOf(a.v) ELSE StrUNKNOWN)

\* the boundary age 25 was bucketed under a whitelist that names the age
C13_Witness ==
    /\ AgeMasked
    /\ ret.df = FtmAge
    /\ Normalized(ret.arg).v["age"] = PyInt(25)
    /\ ret.val.v["age"] = PyStr(Str18_25)
    /\ ret.val.v["name"] = PyStr(<<"b", "o", "b">>)

\* the positions of the digits of a string, and its k-th digit from the end
DigitPositions(s) == {i \in DOMAIN s : s[i] \in Range(DigitChars)}

DigitFromEnd(s, k) ==
    s[CHOOSE i \in DigitPositions(s) :
          Cardinality({j \in DigitPositions(s) : j > i}) = k - 1]

\* the last call was _mask_phone on a non-reversible instance
PhoneMasked == ret.op = "_mask_phone" /\ ~reversible

\* C14: in non-reversible mode _mask_phone returns, for an input with n
\* digits, n - 4 'X' characters followed by the input's last four digits when
\* n >= 4 (length n, no other digit of the input), and 'X' repeated
\* max(3, n) times, with no digit, when n < 4.
C14_PhoneMask ==
    PhoneMasked =>
        LET s == StrOf(ret.arg)
            n == Cardinality(DigitPositions(s))
            o == ret.val.v
        IN  /\ ~ret.exc
            /\ ret.val.t = "str"
            /\ n >= 4 =>
                   /\ Len(o) = n
                   /\ \A i \in 1..(n - 4) : o[i] = "X"
                   /\ \A k \in 1..4 : o[n + 1 - k] = DigitFromEnd(s, k)
            /\ n < 4 =>
                   /\ Len(o) = (IF n > 3 THEN n ELSE 3)
                   /\ \A i \in DOMAIN o : o[i] = "X"

\* the twelve-digit number was masked to XXXXXXXX8044
C14_Witness ==
    /\ PhoneMasked
    /\ ret.arg = PyStr(<<"9", "1", "8", "4", "8", "9", "4", "3", "8", "0", "4", "4">>)
    /\ ret.val = PyStr(<<"X", "X", "X", "X", "X", "X", "X", "X", "8", "0", "4", "4">>)

\* two finished calls of different threads with one prefix got the same
\* counter token
SameTokenTwice ==
    \E i, j \in DOMAIN calls :
        /\ i < j
        /\ calls[i].thread # calls[j].thread
        /\ calls[i].prefix = calls[j].prefix
        /\ NonBlankOriginal(i) /\ NonBlankOriginal(j)
        /\ calls[i].token = calls[j].token

\* the finished calls with this prefix whose original is not blank
CountedCalls(prefix) == {i \in DOMAIN calls : calls[i].prefix = prefix /\ NonBlankOriginal(i)}

\* C15: on a shared non-reversible instance whose callers serialize their
\* tokenizer calls with a mutex, no two calls of different threads with the
\* same prefix return the same token, and once no call is under way each
\* counter equals the number of non-blank calls made with its prefix (no
\* update is lost); without the mutex the same-token state is reachable
\* (C15_Witness).
C15_MutexSerializes ==
    (~reversible /\ mutex.sync) =>
        /\ ~SameTokenTwice
        /\ (\A i \in Threads : threads[i].pc = "idle") =>
               \A p \in {"UNIV", "ORG"} : counters[p] = Cardinality(CountedCalls(p))

\* without the mutex two threads both returned UNIV_1 and the counter, after
\* two increments, is 1
C15_Witness ==
    /\ ~reversible
    /\ ~mutex.sync
    /\ Len(calls) = 2
    /\ calls[1].thread # calls[2].thread
    /\ calls[1].token = CounterToken("UNIV", 1)
    /\ calls[2].token = CounterToken("UNIV", 1)
    /\ counters["UNIV"] = 1

\* this step is a tokenizer call; LastCall is the call it logged
TokenizerStep == calls' # calls

LastCall == calls'[Len(calls')]

\* C16 as stated: in non-reversible mode the four Category Counters start at
\* 0 and every tokenizer call adds exactly one to the counter of its prefix
\* (and leaves the other counters alone), whatever the original.
C16_EveryCallCounts ==
    /\ \A p \in CounterPrefixes : counters[p] = 0
    /\ [][(~reversible /\ TokenizerStep) =>
            \A p \in CounterPrefixes :
                counters'[p] = counters[p] + (IF LastCall.prefix = p THEN 1 ELSE 0)]_vars

\* C16 as amended: in non-reversible mode the four Category Counters start at
\* 0, never decrease, and a tokenizer call adds exactly one to the counter of
\* its prefix when its original is non-empty after trimming, whether or not
\* the original repeats; a call with a blank original leaves every counter
\* unchanged, as does every call for the counters of the other prefixes.
C16_NonBlankCallCounts ==
    /\ \A p \in CounterPrefixes : counters[p] = 0
    /\ [][~reversible =>
            /\ \A p \in CounterPrefixes : counters'[p] >= counters[p]
            /\ TokenizerStep =>
                   \A p \in CounterPrefixes :
                       counters'[p] = counters[p]
                           + (IF LastCall.prefix = p /\ Strip(StrOf(LastCall.original)) # <<>>
                              THEN 1 ELSE 0)]_vars

\* the same university was tokenized twice, then a blank one: the counter is 2
C16_Witness ==
    /\ ~reversible
    /\ Len(calls) = 3
    /\ \A i \in 1..3 : calls[i].prefix = "UNIV"
    /\ calls[1].original = PyStr(<<"m", "i", "t">>)
    /\ calls[2].original = PyStr(<<"m", "i", "t">>)
    /\ calls[3].original = PyStr(<<" ">>)
    /\ counters["UNIV"] = 2

\* the technology entries a skills or projects section hands to
\* _tokenize_technologies, in order
RECURSIVE ProjectTechs(_)
ProjectTechs(entries) ==
    IF entries = <<>> THEN <<>>
    ELSE (IF Head(entries).t = "dict" /\ "technologies" \in DOMAIN Head(entries).v
          THEN TechsList(Head(entries).v["technologies"]) ELSE <<>>)
         \o ProjectTechs(Tail(entries))

TechEntries(op, sec) ==
    IF op = "anonymize_skills"
    THEN AsList(DictGet(sec.v, "technical", PyList(<<>>)))
    ELSE ProjectTechs(Iter(DictGet(sec.v, "entries", PyList(<<>>))).items)

\* the technology tokens of a returned skills or projects section, in order
RECURSIVE ProjectTokens(_)
ProjectTokens(entries) ==
    IF entries = <<>> THEN <<>>
    ELSE (IF "technologies" \in DOMAIN Head(entries).v
          THEN Head(entries).v["technologies"].v ELSE <<>>)
         \o ProjectTokens(Tail(entries))

TechTokens(op, res) ==
    IF op = "anonymize_skills" THEN res.v["technical"].v
    ELSE ProjectTokens(res.v["entries"].v)

\* C17: in non-reversible mode every non-empty technology entry of a skills
\* or projects section advances the TECH counter and receives
\* TECH_<counter value>, so that the same technology string tokenized twice
\* gets two different tokens.
C17_TechCounterTokens ==
    [][(/\ ~reversible
        /\ ops' = ops + 1
        /\ ret'.op \in {"anonymize_skills", "anonymize_projects"}
        /\ ~ret'.exc
        /\ Normalized(ret'.arg).t = "dict") =>
            LET kept == SelectSeq(TechEntries(ret'.op, Normalized(ret'.arg)),
                                  LAMBDA t : Strip(StrOf(t)) # <<>>)
                tokens == TechTokens(ret'.op, ret'.val)
            IN  /\ Len(tokens) = Len(kept)
                /\ \A k \in DOMAIN tokens : tokens[k] = CounterToken("TECH", counters["TECH"] + k)
                /\ \A j, k \in DOMAIN tokens : j # k => tokens[j] # tokens[k]
                /\ counters'["TECH"] = counters["TECH"] + Len(kept)]_vars

\* a str that is empty or holds only spaces
IsBlankStr(x) == x.t = "str" /\ \A i \in DOMAIN x.v : x.v[i] = " "

UnknownToken(prefix) == PyStr(prefix \o <<"_", "U", "N", "K", "N", "O", "W", "N">>)

\* the key an entry section tokenizes and the prefix of its tokens
EntityKey == [anonymize_education |-> "university", anonymize_experience |-> "company"]

EntityPrefix == [anonymize_education |-> <<"U", "N", "I", "V">>,
                 anonymize_experience |-> <<"O", "R", "G">>]

\* C18: in both modes a tokenizer call whose original is empty or
\* whitespace-only returns exactly <prefix>_UNKNOWN, and every education /
\* experience entry whose university / company is empty or whitespace-only
\* comes back with UNIV_UNKNOWN / ORG_UNKNOWN in its place.
C18_BlankIsUnknown ==
    /\ (ret.op = "_get_or_create_token" /\ IsBlankStr(ret.arg)) =>
           ~ret.exc /\ ret.val = UnknownToken(ret.df.v)
    /\ (ret.op \in DOMAIN EntityKey /\ Normalized(ret.arg).t = "dict"
            /\ "entries" \in DOMAIN Normalized(ret.arg).v) =>
           LET entries == Normalized(ret.arg).v["entries"].v
               key == EntityKey[ret.op]
           IN  \A i \in DOMAIN entries :
                   (key \in DOMAIN entries[i].v /\ IsBlankStr(entries[i].v[key])) =>
                       /\ ~ret.exc
                       /\ ret.val.v["entries"].v[i].v[key] = UnknownToken(EntityPrefix[ret.op])

\* a reversible instance returned an education section whose two blank
\* universities (' ' and '') both became UNIV_UNKNOWN
C18_Witness ==
    /\ reversible
    /\ ret.op = "anonymize_education"
    /\ ret.arg = RecEducationBlank.v["education"]
    /\ ret.val.v["entries"].v[1].v["university"] = UnknownToken(<<"U", "N", "I", "V">>)
    /\ ret.val.v["entries"].v[2].v["university"] = UnknownToken(<<"U", "N", "I", "V">>)
    /\ mapping["university"] = EmptyDict

\* the names of the six section anonymizers
SectionAnonymizers == {AnonymizerOf[s] : s \in Sections}

\* C19: a call of any of the six section anonymizers on a value that does
\* not normalize to a mapping (an unparseable string, a string that parses
\* to a list or a number, a list, a number) returns the empty mapping without
\* an exception and leaves the Mapping Table and the Counters as they were.
C19_NonMappingIsEmpty ==
    [][(/\ ops' = ops + 1
        /\ ret'.op \in SectionAnonymizers
        /\ ret'.arg \in NonMappings) =>
            /\ ~ret'.exc
            /\ ret'.val = PyDict(EmptyDict)
            /\ mapping' = mapping
            /\ counters' = counters]_vars

\* after a call that filled the Mapping Table, anonymize_skills returned {}
\* for an unparseable string
C19_Witness ==
    /\ ops = 2
    /\ ret.op = "anonymize_skills"
    /\ ret.arg = PyStr(<<"j", "u", "n", "k">>)
    /\ ret.val = PyDict(EmptyDict)
    /\ mapping["university"] # EmptyDict

\* the strings of ParseInputs that are Python literals, with their values
LiteralValue ==
    (PyStr(<<"5">>) :> PyInt(5))
    @@ (PyStr(<<" ", "5", " ">>) :> PyInt(5))
    @@ (PyStr(<<"-", "5">>) :> PyInt(0 - 5))
    @@ (PyStr(<<"'", "a", "b", "'">>) :> PyStr(<<"a", "b">>))
    @@ (PyStr(<<"[", "1", ",", " ", "2", "]">>) :> PyList(<<PyInt(1), PyInt(2)>>))
    @@ (PyStr(<<"[", "]">>) :> PyList(<<>>))
    @@ (PyStr(<<"{", "}">>) :> PyDict(EmptyDict))
    @@ (PyStr(<<"{", "'", "a", "'", ":", " ", "1", "}">>) :> PyDict([a |-> PyInt(1)]))
    @@ (PyStr(<<"{", "'", "a", "'", ":", " ", "[", "1", ",", " ", "'", "b", "'", "]", ",", " ", "'", "c", "'", ":", " ", "N", "o", "n", "e", "}">>) :> PyDict([a |-> PyList(<<PyInt(1), PyStr(<<"b">>)>>), c |-> PyNone]))
    @@ (PyStr(<<"N", "o", "n", "e">>) :> PyNone)
    @@ (PyStr(<<"{", "'", "e", "n", "t", "r", "i", "e", "s", "'", ":", " ", "[", "]", "}">>) :> PyDict([entries |-> PyList(<<>>)]))
    @@ (PyStr(<<"[", "1", "]">>) :> PyList(<<PyInt(1)>>))

\* C20: safe_parse returns without an exception; for a str that is a literal
\* it returns the literal's value, for any other str the str itself, for a
\* value that is not a str the value itself (a str inside it is not parsed);
\* the call changes nothing of the instance or the mapping file.
C20_SafeParseTotal ==
    [][(ops' = ops + 1 /\ ret'.op = "safe_parse") =>
        LET s == ret'.arg IN
        /\ ~ret'.exc
        /\ s.t # "str" => ret'.val = s
        /\ (s.t = "str" /\ s \in DOMAIN LiteralValue) => ret'.val = LiteralValue[s]
        /\ (s.t = "str" /\ s \notin DOMAIN LiteralValue) => ret'.val = s
        /\ mapping' = mapping
        /\ counters' = counters
        /\ file' = file]_vars

\* a dict literal was parsed into its structure, after a call that filled
\* the Mapping Table
C20_Witness ==
    /\ ops = 2
    /\ ret.op = "safe_parse"
    /\ ret.arg = PyStr(<<"{", "'", "a", "'", ":", " ", "[", "1", ",", " ", "'", "b", "'", "]", ",", " ", "'", "c", "'", ":", " ", "N", "o", "n", "e", "}">>)
    /\ ret.val = PyDict([a |-> PyList(<<PyInt(1), PyStr(<<"b">>)>>), c |-> PyNone])
    /\ mapping["university"] # EmptyDict

\* the technology names of a technologies value: the parts of a
\* pipe-delimited string or the items of a list, trimmed and lowercased,
\* the empty ones dropped
TechParts(techs) ==
    CASE techs.t = "str" -> [i \in DOMAIN Split(techs.v, "|") |-> PyStr(Split(techs.v, "|")[i])]
      [] techs.t = "list" -> techs.v
      [] OTHER -> <<>>

TechNames(techs) ==
    SelectSeq([i \in DOMAIN TechParts(techs) |-> Lower(Strip(StrOf(TechParts(techs)[i])))],
              LAMBDA n : n # <<>>)

\* this step is a call of anonymize_projects on a one-entry section with
\* technologies that returned
TechStep ==
    /\ ops' = ops + 1
    /\ ret'.op = "anonymize_projects"
    /\ ~ret'.exc
    /\ ret'.arg.t = "dict"
    /\ Len(ret'.arg.v["entries"].v) = 1
    /\ "technologies" \in DOMAIN ret'.arg.v["entries"].v[1].v

\* C21: the technologies of a project entry, passed as a pipe-delimited
\* string or as a sequence, come back as one token per non-empty trimmed and
\* lowercased name, in input order, the token being a function of that name
\* (so names that differ in case or surrounding whitespace share a token);
\* a pipe-delimited string and the sequence of its parts give the same
\* tokens and leave the same Mapping Table.
C21_TechNormalized ==
    [][TechStep =>
        LET techs == ret'.arg.v["entries"].v[1].v["technologies"]
            names == TechNames(techs)
            tokens == ret'.val.v["entries"].v[1].v["technologies"].v
        IN  /\ Len(tokens) = Len(names)
            /\ \A k \in DOMAIN tokens :
                   IF reversible
                   THEN /\ names[k] \in DOMAIN mapping'["technology"]
                        /\ tokens[k] = mapping'["technology"][names[k]]
                   ELSE tokens[k] = HStr(<<"T", "E", "C", "H", "_">>, salt \o names[k], 6, <<>>)
            /\ \A j, k \in DOMAIN tokens : names[j] = names[k] => tokens[j] = tokens[k]
            /\ techs.t = "str" =>
                   With(anonymize_projects(Self, PyDict([entries |-> PyList(
                            <<PyDict([ret'.arg.v["entries"].v[1].v
                                         EXCEPT !["technologies"] = PyList(TechParts(techs))])>>)])),
                        LAMBDA parts : /\ ~parts.exc
                                       /\ parts.val = ret'.val
                                       /\ parts.self.mapping = mapping'
                                       /\ parts.self.counters = counters')]_vars

\* ' Py | py||Node' came back as three tokens, the first two equal
C21_Witness ==
    /\ ret.op = "anonymize_projects"
    /\ ~ret.exc
    /\ ret.arg = ProjectsWith("technologies",
                     PyStr(<<" ", "P", "y", " ", "|", " ", "p", "y", "|", "|", "N", "o", "d", "e">>))
    /\ Len(ret.val.v["entries"].v[1].v["technologies"].v) = 3
    /\ ret.val.v["entries"].v[1].v["technologies"].v[1]
           = ret.val.v["entries"].v[1].v["technologies"].v[2]
    /\ ret.val.v["entries"].v[1].v["technologies"].v[3]
           # ret.val.v["entries"].v[1].v["technologies"].v[1]

\* the title without a #<digits> run at its very end
StripTrailingId(s) ==
    LET hashes == {i \in DOMAIN s : /\ s[i] = "#"
                                    /\ i < Len(s)
                                    /\ \A j \in (i + 1)..Len(s) : IsDigit(s[j])}
    IN  IF hashes = {} THEN s ELSE SubSeq(s, 1, (CHOOSE i \in hashes : TRUE) - 1)

\* the first five alphanumeric words of s joined by '_'
FiveWords(s) ==
    LET words == ReFindAllFrom("alnum_run", s, 1)
    IN  Join(<<"_">>, SubSeq(words, 1, IF Len(words) < 5 THEN Len(words) ELSE 5))

\* this step is a call of anonymize_projects on a one-entry section with a
\* title that returned
TitleStep ==
    /\ ops' = ops + 1
    /\ ret'.op = "anonymize_projects"
    /\ ~ret'.exc
    /\ ret'.arg.t = "dict"
    /\ Len(ret'.arg.v["entries"].v) = 1
    /\ "title" \in DOMAIN ret'.arg.v["entries"].v[1].v

\* C22: the token of a project title is made from the title with a trailing
\* #<digits> suffix removed and nothing else altered: in reversible mode the
\* Entity Tokenizer token (category project_title, prefix PROJ) of that
\* title, in non-reversible mode PROJ_ and the hash of its first five
\* alphanumeric words joined by '_'.
C22_TrailingIdStripped ==
    [][TitleStep =>
        LET title == StripTrailingId(StrOf(ret'.arg.v["entries"].v[1].v["title"]))
            token == ret'.val.v["entries"].v[1].v["title"]
        IN  IF reversible
            THEN IF Strip(title) = <<>>
                 THEN token = UnknownToken(<<"P", "R", "O", "J">>)
                 ELSE /\ Strip(title) \in DOMAIN mapping'["project_title"]
                      /\ token = mapping'["project_title"][Strip(title)]
                      /\ token = HStr(<<"P", "R", "O", "J", "_">>, salt \o Strip(title), 12, <<>>)
            ELSE token = HStr(<<"P", "R", "O", "J", "_">>, salt \o FiveWords(title), 8, <<>>)]_vars

\* the description d with every email address replaced by [email] and then
\* every phone number by [phone]
Sanitized(d) ==
    CASE d = PyStr(Repeat("~", 600)) ->
             Repeat("~", 600)
      [] d = PyStr(Repeat("~", 500)) ->
             Repeat("~", 500)
      [] d = PyStr(Repeat("~", 501)) ->
             Repeat("~", 501)
      [] d = PyStr(Repeat("~", 493) \o <<"1", "2", "3", "4", "5", "6", "7", "8", "9", "0", "1", "2", "3">>) ->
             Repeat("~", 493) \o <<"[", "p", "h", "o", "n", "e", "]">>
      [] d = PyStr(Repeat("~", 494) \o <<" ", "a", "@", "b", ".", "c">>) ->
             Repeat("~", 494) \o <<" ", "[", "e", "m", "a", "i", "l", "]">>
      [] d = PyStr(Repeat("~", 499) \o <<" ", "+", "1", " ", "(", "2", "3", ")", " ", "4", "5", "6", "-", "7", "8", "9", "0">>) ->
             Repeat("~", 499) \o <<" ", "[", "p", "h", "o", "n", "e", "]">>
      [] d = PyStr(<<"t", "o", " ", "u", "1", "2", "3", "4", "5", "6", "7", "@", "x", ".", "y", " ", "o", "r", " ", "5", "5", "5", " ", "1", "2", "3", "4">>) ->
             <<"t", "o", " ", "[", "e", "m", "a", "i", "l", "]", " ", "o", "r", " ", "[", "p", "h", "o", "n", "e", "]">>
      [] d = PyStr(<<"m", "a", "i", "l", " ", "a", "@", "b", ".", "c">>) ->
             <<"m", "a", "i", "l", " ", "[", "e", "m", "a", "i", "l", "]">>
      [] d = PyStr(<<>>) ->
             <<>>
      [] d = PyInt(12345678) -> <<"[", "p", "h", "o", "n", "e", "]">>
      [] d = PyNone -> <<"N", "o", "n", "e">>

\* this step is a call of anonymize_projects on a one-entry section with a
\* description that returned
DescriptionStep ==
    /\ ops' = ops + 1
    /\ ret'.op = "anonymize_projects"
    /\ ~ret'.exc
    /\ ret'.arg.t = "dict"
    /\ Len(ret'.arg.v["entries"].v) = 1
    /\ "description" \in DOMAIN ret'.arg.v["entries"].v[1].v

\* C23: a project description comes back with its email addresses replaced
\* by '[email]', then its phone-like digit runs by '[phone]', and only then
\* cut: longer than 500 characters after the replacements it is its first
\* 500 characters and '...', otherwise it is the replaced text unchanged; it
\* never has more than 503 characters.
C23_DescriptionSanitized ==
    [][DescriptionStep =>
        LET san == Sanitized(ret'.arg.v["entries"].v[1].v["description"])
            desc == ret'.val.v["entries"].v[1].v["description"]
        IN  /\ desc.t = "str"
            /\ Len(desc.v) <= 503
            /\ Len(san) > 500 => desc.v = SubSeq(san, 1, 500) \o <<".", ".", ".">>
            /\ Len(san) <= 500 => desc.v = san]_vars

\* a description of 500 characters that grows past the limit when its email
\* address is replaced was cut after the replacement
C23_Witness ==
    /\ ret.op = "anonymize_projects"
    /\ ~ret.exc
    /\ ret.arg = ProjectsWith("description",
                     PyStr(Repeat("~", 494) \o <<" ", "a", "@", "b", ".", "c">>))
    /\ Len(ret.val.v["entries"].v[1].v["description"].v) = 503
    /\ SubSeq(ret.val.v["entries"].v[1].v["description"].v, 496, 503)
           = <<"[", "e", "m", "a", "i", ".", ".", ".">>

\* this step is a call of anonymize_certifications on a mapping with a list
\* of entries that returned
CertificationStep ==
    /\ ops' = ops + 1
    /\ ret'.op = "anonymize_certifications"
    /\ ~ret'.exc
    /\ ret'.arg.t = "dict"
    /\ "entries" \in DOMAIN ret'.arg.v
    /\ ret'.arg.v["entries"].t = "list"

\* C24: in both modes anonymize_certifications returns as many entries as it
\* was passed, in the same order; no returned entry has an 'issuer' or an 'id'
\* key, and every other key of an entry except 'name' is kept with its input
\* value.
C24_IssuerAndIdDropped ==
    [][CertificationStep =>
        LET given == ret'.arg.v["entries"].v
            entries == ret'.val.v["entries"].v
        IN  /\ Len(entries) = Len(given)
            /\ \A i \in DOMAIN entries :
                   /\ entries[i].t = "dict"
                   /\ DOMAIN entries[i].v = DOMAIN given[i].v \ {"issuer", "id"}
                   /\ \A k \in DOMAIN entries[i].v \ {"name"} :
                          entries[i].v[k] = given[i].v[k]]_vars

\* two entries came back in their order, the first without its issuer and id
C24_Witness ==
    /\ ret.op = "anonymize_certifications"
    /\ ~ret.exc
    /\ ret.arg = PyDict([entries |-> PyList(<<CertEntryA, CertEntryB>>)])
    /\ DOMAIN ret.val.v["entries"].v[1].v = {"name", "year"}
    /\ ret.val.v["entries"].v[1].v["year"] = PyInt(2020)
    /\ ret.val.v["entries"].v[2].v["year"] = PyInt(2021)

\* 'remote' occurs in s, in any case
HasRemote(s) ==
    \E i \in 1..(Len(s) - 5) : Lower(SubSeq(s, i, i + 5)) = <<"r", "e", "m", "o", "t", "e">>

\* this step is a call of the location masker on a string
LocationStep ==
    /\ ops' = ops + 1
    /\ ret'.op = "_anonymize_location"
    /\ ret'.arg.t = "str"

\* C25: a non-empty location is masked to REMOTE_ (when it contains 'remote'
\* in any case) or ONSITE_ (otherwise) followed by its LOC Entity Tokenizer
\* token in reversible mode, or by 8 hex characters of its salted hash in
\* non-reversible mode; an empty or whitespace-only location becomes
\* 'UNKNOWN' and leaves the Mapping Table as it was.
C25_LocationMasked ==
    [][LocationStep =>
        LET l == Strip(ret'.arg.v)
            cat == IF HasRemote(ret'.arg.v)
                   THEN <<"R", "E", "M", "O", "T", "E", "_">>
                   ELSE <<"O", "N", "S", "I", "T", "E", "_">>
        IN  /\ ~ret'.exc
            /\ l = <<>> => /\ ret'.val = PyStr(<<"U", "N", "K", "N", "O", "W", "N">>)
                           /\ mapping' = mapping
            /\ (l # <<>> /\ reversible) =>
                   /\ l \in DOMAIN mapping'["location"]
                   /\ mapping'["location"][l] = HStr(<<"L", "O", "C", "_">>, salt \o l, 12, <<>>)
                   /\ ret'.val = HStr(cat \o <<"L", "O", "C", "_">>, salt \o l, 12, <<>>)
            /\ (l # <<>> /\ ~reversible) =>
                   /\ ret'.val = HStr(cat, salt \o l, 8, <<>>)
                   /\ mapping' = mapping]_vars

\* 'ny (REMOTE)' was masked on a reversible instance
C25_Witness ==
    /\ reversible
    /\ ret.op = "_anonymize_location"
    /\ ret.arg = PyStr(<<"n", "y", " ", "(", "R", "E", "M", "O", "T", "E", ")">>)
    /\ ret.val.t = "hstr"
    /\ SubSeq(ret.val.v.pre, 1, 7) = <<"R", "E", "M", "O", "T", "E", "_">>
    /\ ret.arg.v \in DOMAIN mapping["location"]

\* C27: in every reachable state a non-reversible instance has an empty
\* Mapping Table in each of its eight categories, and a reversible instance
\* has its four Category Counters at 0.
C27_ModeExclusive ==
    /\ ~reversible =>
           \A c \in {"name", "email", "phone", "university", "company",
                     "technology", "project_title", "location"} :
               c \in DOMAIN mapping /\ DOMAIN mapping[c] = {}
    /\ reversible =>
           \A p \in {"ORG", "UNIV", "TECH", "PROJ"} : p \in DOMAIN counters /\ counters[p] = 0

\* a full record was anonymized on a reversible instance and filled the
\* Mapping Table
C27_Witness ==
    /\ reversible
    /\ ret.op = "anonymize_record"
    /\ ~ret.exc
    /\ ret.arg = RecBase
    /\ \A c \in DOMAIN mapping : DOMAIN mapping[c] # {}

\* C30: whenever anonymize_dataset has returned on a reversible instance, the
\* mapping file holds {'mapping': <the Mapping Table in memory>}: all eight
\* categories, the empty ones too, with every entry the table had when the
\* call began (from earlier batches or anonymize_record calls) besides those
\* of this batch.
C30_FileIsFullTable ==
    (reversible /\ DatasetOver /\ ~ret.exc) =>
        /\ file.t = "json"
        /\ DOMAIN file.v = {"mapping"}
        /\ DOMAIN file.v["mapping"] = {"name", "email", "phone", "university", "company",
                                       "technology", "project_title", "location"}
        /\ file.v["mapping"] = mapping
        /\ \A c \in DOMAIN entry.mapping :
               \A k \in DOMAIN entry.mapping[c] :
                   /\ k \in DOMAIN file.v["mapping"][c]
                   /\ file.v["mapping"][c][k] = entry.mapping[c][k]

\* a batch returned on an instance whose table already had entries; the file
\* holds the old and the new entries and an empty category
C30_Witness ==
    /\ reversible
    /\ DatasetOver /\ ~ret.exc
    /\ entry.mapping["university"] # EmptyDict
    /\ mapping # entry.mapping
    /\ mapping["email"] = EmptyDict
    /\ file = FileJson(mapping)

\* a new reversible instance with the salt of this one
Worker(pres) == NewAnonymizer(TRUE, pres, salt, id_prefix)

\* two Mapping Tables give the same token to every key they share
Agree(m1, m2) ==
    \A c \in DOMAIN m1 \cap DOMAIN m2 :
        \A k \in DOMAIN m1[c] \cap DOMAIN m2[c] : m1[c][k] = m2[c][k]

\* the first table updated with the entries of the second
Merge(m1, m2) == [c \in DOMAIN m1 |-> m2[c] @@ m1[c]]

Reverse(s) == [i \in DOMAIN s |-> s[Len(s) + 1 - i]]

\* C28: when the records of a batch are divided between two new reversible
\* instances with the same salt, the two Mapping Tables give the same token
\* to every (category, normalized original) they share, merging them in
\* either direction gives one table, and that table is the table of a single
\* new instance that processed all the records, in the passed order or in the
\* reverse order.
C28_WorkerTablesMerge ==
    (reversible /\ DatasetOver /\ ~ret.exc) =>
        \A n \in 0..Len(ret.arg.v) :
            With(Replay(Worker(TRUE), SubSeq(ret.arg.v, 1, n), ret.df, <<>>), LAMBDA a :
            With(Replay(Worker(FALSE), SubSeq(ret.arg.v, n + 1, Len(ret.arg.v)), ret.df, <<>>),
                 LAMBDA b :
            With(Merge(a.self.mapping, b.self.mapping), LAMBDA merged :
                /\ ~a.exc /\ ~b.exc
                /\ Agree(a.self.mapping, b.self.mapping)
                /\ merged = Merge(b.self.mapping, a.self.mapping)
                /\ merged = Replay(Worker(TRUE), ret.arg.v, ret.df, <<>>).self.mapping
                /\ merged = Replay(Worker(TRUE), Reverse(ret.arg.v), ret.df, <<>>).self.mapping
                /\ entry.mapping = Worker(TRUE).mapping => merged = mapping)))

\* a batch of two records with a university in common returned on a new
\* instance
C28_Witness ==
    /\ reversible
    /\ DatasetOver /\ ~ret.exc
    /\ ret.arg.v = <<DataGood, DataTwo>>
    /\ entry.mapping = Worker(TRUE).mapping
    /\ Cardinality(DOMAIN mapping["university"]) = 2

\* the calls of the log made one after the other on the instance self: the
\* instance after the last one and the tokens returned
RECURSIVE Serial(_, _, _)
Serial(self, cs, tokens) ==
    IF cs = <<>> THEN Return(self, PyList(tokens))
    ELSE Then(_get_or_create_token(self, Head(cs).category, Head(cs).original, Head(cs).prefix),
              LAMBDA r : Serial(r.self, Tail(cs), Append(tokens, r.val)))

\* C29: on a shared reversible instance, with or without a mutex, every
\* finished tokenizer call has returned the token that the same calls made
\* one after the other on a new instance return, and once no call is under
\* way the Mapping Table is the table those serial calls leave; the counters
\* stay untouched.
C29_ReversibleRaceBenign ==
    reversible =>
        With(Serial(Worker(TRUE), calls, <<>>), LAMBDA s :
            /\ ~s.exc
            /\ \A i \in DOMAIN calls : calls[i].token = s.val.v[i]
            /\ (\A i \in Threads : threads[i].pc = "idle") => mapping = s.self.mapping
            /\ counters = s.self.counters)

\* without a mutex both threads missed the same original in the table; one
\* has stored its token and the other is about to store over it
C29_Witness ==
    /\ reversible
    /\ ~mutex.sync
    /\ threads[1].pc = "done"
    /\ threads[2].pc = "store"
    /\ threads[1].category = threads[2].category
    /\ threads[1].original_norm = threads[2].original_norm
    /\ threads[1].original_norm \in DOMAIN mapping[threads[1].category]
    /\ threads[1].token = mapping[threads[1].category][threads[1].original_norm]

\* C26: anonymize_record and anonymize_dataset never modify what they are
\* given: in every state every object passed to a call so far (a record or a
\* list of records, with every section, entry and list in it) has the value
\* it had when it was passed, and no dict or list reached from a returned
\* object is reached from an object that was passed.
C26_InputsNotModified ==
    /\ \A i \in DOMAIN passed : HValue(heap, passed[i].r) = passed[i].value
    /\ \A i \in DOMAIN returned, j \in DOMAIN passed :
           HReach(heap, returned[i]) \cap HReach(heap, passed[j].r) = {}

\* a list with a full record was anonymized after another call; its record
\* came back changed
C26_Witness ==
    /\ Len(passed) = 2
    /\ Len(returned) = 2
    /\ ret.op = "anonymize_dataset"
    /\ ~ret.exc
    /\ ret.arg = PyList(<<RecBase>>)
    /\ ret.val.v[1] # RecBase
    /\ HValue(heap, passed[2].r) = PyList(<<RecBase>>)

\* the calls on objects return the records the calls on values return
HeapAgreesWithValues ==
    [][(ops' = ops + 1 /\ ret'.op = "anonymize_record") =>
          With(anonymize_record(Self, ret'.arg, ret'.df), LAMBDA r :
               /\ ret'.exc = r.exc
               /\ ~r.exc => ret'.val = r.val
               /\ mapping' = r.self.mapping
               /\ counters' = r.self.counters)]_vars

====
